---- MODULE Spec2Model ----
(***************************************************************************)
(* A model of howm's core: the workspace / client-list model, the delete   *)
(* register and scratchpad, the key-press automaton and the replay record. *)
(* Clients are heap cells (next pointers are kept as pointers), so that    *)
(* aliasing, stale links, cycles and freed cells are states of the model.  *)
(***************************************************************************)
EXTENDS Integers, Sequences, FiniteSets, TLC

\* ---------------------------------------------------------------- bounds
MaxClients == 3           \* windows that ever ask to be mapped, one heap cell each
MaxCount   == 2           \* largest count typed or sent (the code accepts 1..9)
MaxSteps   == 5           \* handlers run in one behaviour

\* ------------------------------------------------ configuration (config.h)
WORKSPACES           == 2
DELETE_REGISTER_SIZE == 2
DEFAULT_WORKSPACE    == 1
FOLLOW_MOVE          == FALSE
WS_LAYOUT            == 0          \* the layout of every workspace at start: ZOOM
WS_GAP               == 0          \* GAP
BAR_HEIGHT           == 20
MASTER_RATIO_PERCENT == 60         \* MASTER_RATIO 0.6
OP_GAP_SIZE          == 4

NIL     == 0
Clients == 1..MaxClients
Windows == Clients         \* the cell calloc returns is named by its window
WsIdx   == 1..WORKSPACES

\* enum motions
CLIENT    == 0
WORKSPACE == 1

\* enum states, enum modes
OPERATOR_STATE == 0
COUNT_STATE    == 1
MOTION_STATE   == 2
NORMAL         == 0
FOCUS          == 1
FLOATING       == 2
END_MODES      == 3

\* A function pointer is the function's name; the null pointer:
NULL == "NULL"

VARIABLES
    wss,           \* wss[w] = [head, current, prev_foc, client_cnt,
                   \*           layout, gap, master_ratio, bar_height]
    next,          \* Client.next of every heap cell
    alive,         \* heap cells allocated and not freed
    gap,           \* Client.gap of every heap cell
    is_fullscreen, \* Client.is_fullscreen of every heap cell
    is_urgent,     \* Client.is_urgent of every heap cell
    mapped,        \* windows the X server shows
    active_window, \* the root property _NET_ACTIVE_WINDOW as last published
    current_desktop, \* the root property _NET_CURRENT_DESKTOP as last published
    scratchpad,    \* the scratchpad slot
    del_reg,       \* the delete register, bottom first
    cw,            \* current workspace
    last_ws,       \* last focused workspace
    prev_layout,   \* the layout the last change of layout left
    cur_mode,      \* the mode key bindings are matched in
    cur_state,     \* the state of the key automaton
    cur_cnt,       \* the pending count
    operator_func, \* the pending operator
    rep_state,     \* the replay record
    running,       \* the event loop goes on
    restart,       \* the process is to execute itself again when the loop ends
    retval,        \* the exit code
    main_pc,       \* main: where the event loop is
    descs,         \* main: the descriptors select found ready
    conns,         \* main: the connections accepted on the socket, oldest first
    ret,           \* main: the status of the last socket command
    xq,            \* main: the X events that wait to be polled, oldest first
    exited,        \* main: how the process ended, and its exit status
    fault,         \* "none", or how the process stopped: "segv", "hang", "ub"
    steps,         \* handlers run so far
    calls,         \* history: the commands and operators the last handler invoked
    typed,         \* history: progress of the typed <operator><digit?><motion> sequence
    last_x,        \* history: the last command-producing key action
    cut_log,       \* history: the running sequence of cuts and pastes
    watch,         \* history: how many of the last handlers trace keeps
    quits,         \* history: the codes quit_howm was invoked with, oldest first
    trace,         \* history: what each of the last handlers invoked, oldest first
    input,         \* the arguments and globals a function is called with on its own
    output         \* what that function computed from input

prog == <<wss, next, alive, gap, is_fullscreen, is_urgent, mapped, active_window, current_desktop, scratchpad, del_reg, cw, last_ws, prev_layout,
          cur_mode, cur_state, cur_cnt, operator_func, rep_state, running, restart, retval>>
loop == <<main_pc, descs, conns, ret, xq, exited>>
hist == <<calls, typed, last_x, cut_log, watch, quits, trace>>
call == <<input, output>>
vars == <<prog, fault, steps, hist, call, loop>>

\* The program state as one value, so that C functions compose; calls collects
\* what the running handler invokes.
State ==
    [wss |-> wss, next |-> next, alive |-> alive, gap |-> gap,
     is_fullscreen |-> is_fullscreen, is_urgent |-> is_urgent, mapped |-> mapped,
     active_window |-> active_window, current_desktop |-> current_desktop,
     scratchpad |-> scratchpad, del_reg |-> del_reg, cw |-> cw,
     last_ws |-> last_ws, prev_layout |-> prev_layout,
     cur_mode |-> cur_mode, cur_state |-> cur_state,
     cur_cnt |-> cur_cnt, operator_func |-> operator_func,
     rep_state |-> rep_state, running |-> running, restart |-> restart,
     retval |-> retval, fault |-> fault, calls |-> <<>>]

Fail(s, f) == [s EXCEPT !.fault = f]
Ret(v)     == [v |-> v, f |-> "none"]
Err(f)     == [v |-> NIL, f |-> f]

Min(S) == CHOOSE x \in S : \A y \in S : x <= y

\* Reading a field of c: a NULL pointer traps, a freed cell is undefined.
Deref(s, c) == IF c = NIL THEN "segv" ELSE IF c \notin s.alive THEN "ub" ELSE "none"

\* -------------------------------------------------------------- arithmetic
\* conversion to uint16_t
U16(x) == x % 65536

RECURSIVE Pow2(_)
Pow2(n) == IF n = 0 THEN 1 ELSE 2 * Pow2(n - 1)

\* The number of binary digits of x >= 0.
RECURSIVE BitLen(_)
BitLen(x) == IF x = 0 THEN 0 ELSE 1 + BitLen(x \div 2)

\* q + num / den (0 <= num < den) rounded to the nearest integer, ties to even.
RoundQuot(q, num, den) ==
    IF 2 * num < den THEN q
    ELSE IF 2 * num > den THEN q + 1
    ELSE IF q % 2 = 0 THEN q ELSE q + 1

\* A float (IEEE 754 binary32) x is kept as the integer x * 2^30: exact for 0
\* and for every binary32 value of magnitude in [2^-7, 2).
FloatOne == Pow2(30)

\* The integer s * 2^-30 rounded to binary32 (24 significant digits).
FloatRound(s) ==
    LET Mag(m) ==
            LET u == Pow2(BitLen(m) - 24)
            IN  IF BitLen(m) <= 24 THEN m ELSE u * RoundQuot(m \div u, m % u, u)
    IN  IF s < 0 THEN 0 - Mag(0 - s) ELSE Mag(s)

\* a + b on floats
FloatAdd(a, b) == FloatRound(a + b)

\* floor(r * 2^k / d) and the remainder, for 0 <= r < d, by long division.
RECURSIVE LongDiv(_, _, _, _)
LongDiv(q, r, d, k) ==
    IF k = 0 THEN [q |-> q, r |-> r]
    ELSE IF 2 * r >= d THEN LongDiv(2 * q + 1, 2 * r - d, d, k - 1)
    ELSE LongDiv(2 * q, 2 * r, d, k - 1)

\* ((float)i) / 100 for -100 < i < 100: both operands are exact floats, the
\* quotient is rounded once.
FloatPercent(i) ==
    LET Mag(n) ==
            LET u == Pow2(IF BitLen(n.q) <= 24 THEN 0 ELSE BitLen(n.q) - 24)
            IN  u * RoundQuot(n.q \div u, (n.q % u) * 100 + n.r, u * 100)
    IN  IF i < 0 THEN 0 - Mag(LongDiv(0, 0 - i, 100, 30)) ELSE Mag(LongDiv(0, i, 100, 30))

\* (uint16_t)(w * r) for an integer 0 <= w < 2^11 and a float 0 <= r < 1: w is
\* converted to float exactly, the product is rounded to float and then
\* truncated.  The exact product is hi * 2^15 + lo (in units of 2^-30).
FloatMulTrunc(w, r) ==
    LET a  == w * (r % Pow2(15))
        hi == w * (r \div Pow2(15)) + a \div Pow2(15)
        lo == a % Pow2(15)
        j  == (IF hi > 0 THEN 15 + BitLen(hi) ELSE BitLen(lo)) - 24
        Low(u)  == u * RoundQuot(lo \div u, lo % u, u)
        High(v) == v * RoundQuot(hi \div v, (hi % v) * Pow2(15) + lo, v * Pow2(15))
    IN  IF j <= 0 THEN hi \div Pow2(15)
        ELSE IF j < 15 THEN (hi + Low(Pow2(j)) \div Pow2(15)) \div Pow2(15)
        ELSE High(Pow2(j - 15)) \div Pow2(15)

\* ------------------------------------------------- socket command arguments
\* enum ipc_errs
IPC_ERR_NONE          == 0
IPC_ERR_SYNTAX        == 1
IPC_ERR_ALLOC         == 2
IPC_ERR_NO_CMD        == 3
IPC_ERR_TOO_MANY_ARGS == 4
IPC_ERR_TOO_FEW_ARGS  == 5
IPC_ERR_ARG_NOT_INT   == 6
IPC_ERR_ARG_TOO_LARGE == 7

\* A C string is the sequence of its characters before the terminating NUL; a
\* character is a string of length one, and Ord is its code.
Chars == {"-", "/", "0", "1", "5", "9", ":", "a", "c", "w"}
Ord(ch) ==
    CASE ch = "-" -> 45 [] ch = "/" -> 47 [] ch = "0" -> 48 [] ch = "1" -> 49
      [] ch = "5" -> 53 [] ch = "9" -> 57 [] ch = ":" -> 58 [] ch = "a" -> 97
      [] ch = "c" -> 99 [] ch = "w" -> 119

\* ipc_arg_to_int(arg, &err) with *err = err at the call: the value returned and
\* *err at the return.
ipc_arg_to_int(arg, err) ==
    LET neg  == arg # <<>> /\ arg[1] = "-"
        sign == IF neg THEN 0 - 1 ELSE 1
        a    == IF neg THEN Tail(arg) ELSE arg
        Between(lo, ch, hi) == lo <= Ord(ch) /\ Ord(ch) <= Ord(hi)
    IN  IF Len(a) = 1 /\ Between(Ord("0") + 1, a[1], "9")
        THEN IF Between(Ord("0"), a[1], "9")
             THEN [v |-> sign * (Ord(a[1]) - Ord("0")), err |-> err]
             ELSE [v |-> 0, err |-> IPC_ERR_ARG_NOT_INT]
        ELSE IF /\ Len(a) = 2
                /\ Between(Ord("0") + 1, a[1], "9")
                /\ Between(Ord("0"), a[2], "9")
        THEN IF Between(Ord("0") + 1, a[1], "9") /\ Between(Ord("0"), a[2], "9")
             THEN [v |-> sign * (10 * (Ord(a[1]) - Ord("0")) + (Ord(a[2]) - Ord("0"))),
                   err |-> err]
             ELSE [v |-> 0, err |-> IPC_ERR_ARG_NOT_INT]
        ELSE [v |-> 0, err |-> IPC_ERR_ARG_TOO_LARGE]

\* ------------------------------------------------------------------ layouts
\* enum layouts
ZOOM       == 0
GRID       == 1
HSTACK     == 2
VSTACK     == 3
END_LAYOUT == 4

\* A layout handler is called with g: the layout and master_ratio of wss[cw], its
\* bar_height, BAR_BOTTOM, the screen, and fft, which tells of every client of
\* wss[cw]'s list, in list order, whether FFT(c) holds.  It returns x, y, w, h
\* of every client of the list.

\* what calloc left in x, y, w, h
NoGeom == [x |-> 0, y |-> 0, w |-> 0, h |-> 0]

\* change_client_geom: the parameters are uint16_t
Geom(x, y, w, h) == [x |-> U16(x), y |-> U16(y), w |-> U16(w), h |-> U16(h)]

\* The positions of the clients that are not FFT.
NonTff(g) == {i \in 1..Len(g.fft) : ~ g.fft[i]}

get_non_tff_count(g) == Cardinality(NonTff(g))
get_first_non_tff(g) == IF NonTff(g) = {} THEN 0 ELSE Min(NonTff(g))

\* How many clients that are not FFT come before position i.
Rank(g, i) == Cardinality({j \in NonTff(g) : j < i})

zoom(g) ==
    [i \in 1..Len(g.fft) |->
        IF g.fft[i] THEN NoGeom
        ELSE Geom(0, IF g.BAR_BOTTOM THEN 0 ELSE g.bar_height,
                  g.screen_width, g.screen_height - g.bar_height)]

\* floor(w * r) for an integer 0 <= w < 2^11 and a float 0 <= r < 1, the product
\* taken exactly.
FloorProduct(w, r) ==
    (w * (r \div Pow2(15)) + (w * (r % Pow2(15))) \div Pow2(15)) \div Pow2(15)

\* stack with the master size taken from the exact product
stack_exact(g) ==
    LET vert == (g.layout = VSTACK)
        h    == U16(g.screen_height - g.bar_height)
        w    == g.screen_width
        n    == get_non_tff_count(g)
        client_y == IF g.BAR_BOTTOM THEN 0 ELSE g.bar_height
        ms   == U16(FloorProduct(IF vert THEN w ELSE h, g.master_ratio))
        span == IF vert THEN h ELSE w
        client_span == U16(span \div (n - 1))
        Stacked(k) ==
            IF vert
            THEN Geom(ms, U16(client_y + k * client_span), g.screen_width - ms, client_span)
            ELSE Geom(U16(k * client_span), ms, client_span,
                      g.screen_height - g.bar_height - ms)
    IN  IF n <= 1 THEN zoom(g)
        ELSE [i \in 1..Len(g.fft) |->
                 IF g.fft[i] THEN NoGeom
                 ELSE IF i = get_first_non_tff(g)
                 THEN IF vert THEN Geom(0, client_y, ms, span)
                      ELSE Geom(0, IF g.BAR_BOTTOM THEN 0 ELSE g.bar_height, span, ms)
                 ELSE Stacked(Rank(g, i) - 1)]

stack(g) ==
    LET vert == (g.layout = VSTACK)
        h    == U16(g.screen_height - g.bar_height)
        w    == g.screen_width
        n    == get_non_tff_count(g)
        client_y == IF g.BAR_BOTTOM THEN 0 ELSE g.bar_height
        ms   == U16(FloatMulTrunc(IF vert THEN w ELSE h, g.master_ratio))
        span == IF vert THEN h ELSE w
        client_span == U16(span \div (n - 1))
        \* the k-th client of the loop, k = 0, 1, ...
        Stacked(k) ==
            IF vert
            THEN Geom(ms, U16(client_y + k * client_span), g.screen_width - ms, client_span)
            ELSE Geom(U16(k * client_span), ms, client_span,
                      g.screen_height - g.bar_height - ms)
    IN  IF n <= 1 THEN zoom(g)
        ELSE [i \in 1..Len(g.fft) |->
                 IF g.fft[i] THEN NoGeom
                 ELSE IF i = get_first_non_tff(g)
                 THEN IF vert THEN Geom(0, client_y, ms, span)
                      ELSE Geom(0, IF g.BAR_BOTTOM THEN 0 ELSE g.bar_height, span, ms)
                 ELSE Stacked(Rank(g, i) - 1)]

\* the search loop of grid without its break
GridCols_nobreak(n) == (n \div 2) + 1

\* grid: the value of cols after the search loop
GridCols(n) ==
    LET found == {cols \in 0..(n \div 2) : cols * cols >= n}
    IN  IF found # {} THEN Min(found) ELSE (n \div 2) + 1

\* grid: the loop over the clients that are not FFT, from the i-th (i = 0, 1, ...)
\* on; acc holds the geometry given so far.
RECURSIVE GridLoop(_, _, _, _, _, _)
GridLoop(g, i, rows, col_cnt, row_cnt, acc) ==
    LET n     == get_non_tff_count(g)
        cols  == GridCols(n)
        col_w == U16(g.screen_width \div cols)
        col_h == U16(g.screen_height - g.bar_height)
        client_y == IF g.BAR_BOTTOM THEN 0 ELSE g.bar_height
        rows2 == IF cols - (n % cols) < (i \div rows) + 1 THEN (n \div cols) + 1 ELSE rows
        here  == Geom(col_cnt * col_w, client_y + ((row_cnt * col_h) \div rows2),
                      col_w, col_h \div rows2)
    IN  IF i >= n THEN acc
        ELSE IF row_cnt + 1 >= rows2
        THEN GridLoop(g, i + 1, rows2, col_cnt + 1, 0, Append(acc, here))
        ELSE GridLoop(g, i + 1, rows2, col_cnt, row_cnt + 1, Append(acc, here))

grid(g) ==
    LET n     == get_non_tff_count(g)
        given == GridLoop(g, 0, n \div GridCols(n), 0, 0, <<>>)
    IN  IF n <= 1 THEN zoom(g)
        ELSE [i \in 1..Len(g.fft) |->
                 IF g.fft[i] THEN NoGeom ELSE given[Rank(g, i) + 1]]

\* ------------------------------------------------------------ list walking
RECURSIVE WalkFrom(_, _, _)
WalkFrom(s, c, acc) ==
    IF c = NIL THEN [seq |-> acc, end |-> "nil"]
    ELSE IF c \notin s.alive THEN [seq |-> acc, end |-> "freed"]
    ELSE IF \E i \in 1..Len(acc) : acc[i] = c THEN [seq |-> acc, end |-> "cycle"]
    ELSE WalkFrom(s, s.next[c], Append(acc, c))

\* for (c = h; c; c = c->next): the cells visited, and how the walk ends.
Walk(s, h) == WalkFrom(s, h, <<>>)

WalkFault(w) ==
    CASE w.end = "nil"   -> "none"
      [] w.end = "cycle" -> "hang"
      [] w.end = "freed" -> "ub"

SeqSet(q) == {q[i] : i \in 1..Len(q)}

\* c->win
Win(c) == c

\* XCB_NONE: no window
XCB_NONE == 0

\* xcb_map_window / xcb_unmap_window on every client of a walked list
MapAll(s, q)   == [s EXCEPT !.mapped = @ \cup {Win(q[i]) : i \in 1..Len(q)}]
UnmapAll(s, q) == [s EXCEPT !.mapped = @ \ {Win(q[i]) : i \in 1..Len(q)}]

\* ------------------------------------------------------- client-list primitives
\* A loop over the list from h that changes nothing the model keeps.
CheckWalk(s, h) ==
    IF s.fault # "none" THEN s ELSE Fail(s, WalkFault(Walk(s, h)))

prev_client(s, c, ws) ==
    LET head == s.wss[ws].head
        Scan(w) ==
            LET hits == {i \in 1..Len(w.seq) :
                            s.next[w.seq[i]] = NIL \/ s.next[w.seq[i]] = c}
            IN  IF hits # {} THEN Ret(w.seq[Min(hits)]) ELSE Err(WalkFault(w))
    IN  IF c = NIL \/ head = NIL THEN Ret(NIL)
        ELSE IF head \notin s.alive THEN Err("ub")
        ELSE IF s.next[head] = NIL THEN Ret(NIL)
        ELSE Scan(Walk(s, head))

next_client(s, c) ==
    LET head == s.wss[s.cw].head
    IN  IF c = NIL \/ head = NIL THEN Ret(NIL)
        ELSE IF head \notin s.alive THEN Err("ub")
        ELSE IF s.next[head] = NIL THEN Ret(NIL)
        ELSE IF c \notin s.alive THEN Err("ub")
        ELSE IF s.next[c] # NIL THEN Ret(s.next[c])
        ELSE Ret(head)

\* The scan of find_client_by_win from workspace w on.
RECURSIVE FindFrom(_, _, _)
FindFrom(s, xw, w) ==
    LET Scan(k) ==
            LET hits == {i \in 1..Len(k.seq) : Win(k.seq[i]) = xw}
            IN  IF hits # {} THEN Ret(k.seq[Min(hits)])
                ELSE IF k.end # "nil" THEN Err(WalkFault(k))
                ELSE FindFrom(s, xw, w + 1)
    IN  IF w > WORKSPACES THEN Ret(NIL) ELSE Scan(Walk(s, s.wss[w].head))

find_client_by_win(s, xw) == FindFrom(s, xw, 1)

correct_ws(ws) ==
    IF ws > WORKSPACES THEN ws - WORKSPACES
    ELSE IF ws < 1 THEN ws + WORKSPACES
    ELSE ws

\* ------------------------------------------------------------------ layout
\* Every layout handler and draw_clients walk the current list; geometry is
\* not part of this state.
arrange_windows(s) ==
    IF s.fault # "none" \/ s.wss[s.cw].head = NIL THEN s
    ELSE CheckWalk(s, s.wss[s.cw].head)

\* ------------------------------------------------------------------- focus
\* wss[w].prev_foc = p, where p is what prev_client returned
SetPrevFoc(s, w, p) ==
    IF s.fault # "none" THEN s
    ELSE IF p.f # "none" THEN Fail(s, p.f)
    ELSE [s EXCEPT !.wss[w].prev_foc = p.v]

update_focused_client(s, c) ==
    LET ws == s.wss[s.cw]
        Back(t) == SetPrevFoc(t, s.cw, prev_client(t, ws.prev_foc, s.cw))
        Drawn(t) ==
            IF t.fault # "none" THEN t
            ELSE IF t.wss[t.cw].current \notin t.alive THEN Fail(t, "ub")
            ELSE arrange_windows([t EXCEPT !.active_window = Win(t.wss[t.cw].current)])
    IN  IF s.fault # "none" \/ c = NIL THEN s
        ELSE IF ws.head = NIL
        THEN [s EXCEPT !.wss[s.cw].prev_foc = NIL, !.wss[s.cw].current = NIL,
                       !.active_window = XCB_NONE]
        ELSE Drawn(CheckWalk(
                 IF c = ws.prev_foc
                 THEN Back([s EXCEPT !.wss[s.cw].current = ws.prev_foc])
                 ELSE IF c # ws.current
                 THEN [s EXCEPT !.wss[s.cw].prev_foc = ws.current,
                                !.wss[s.cw].current = c]
                 ELSE s,
                 ws.head))

\* ----------------------------------------------------------------- removal
\* The workspace whose list the scan of remove_client finds c in.
RECURSIVE RemoveScan(_, _, _)
RemoveScan(s, c, w) ==
    LET Scan(k) ==
            IF c \in SeqSet(k.seq) THEN Ret(w)
            ELSE IF k.end # "nil" THEN Err(WalkFault(k))
            ELSE RemoveScan(s, c, w + 1)
    IN  IF w > WORKSPACES THEN Ret(NIL) ELSE Scan(Walk(s, s.wss[w].head))

\* *temp = c->next, where temp is the link that holds c in workspace w
Unlink(s, c, w) ==
    LET Before(k) == k.seq[Min({i \in 1..Len(k.seq) : s.next[k.seq[i]] = c})]
    IN  IF s.wss[w].head = c
        THEN [s EXCEPT !.wss[w].head = s.next[c]]
        ELSE [s EXCEPT !.next[Before(Walk(s, s.wss[w].head))] = s.next[c]]

Free(s, c) ==
    [s EXCEPT !.alive = @ \ {c}, !.next[c] = NIL, !.gap[c] = 0, !.is_fullscreen[c] = FALSE,
              !.is_urgent[c] = FALSE]

\* remove_client from the label found on: c is in the list of workspace w
RemoveFound(s, c, w, refocus) ==
    LET PrevFoc(t) ==
            IF c = t.wss[w].prev_foc
            THEN SetPrevFoc(t, w, prev_client(t, t.wss[w].current, w))
            ELSE t
        Current(t) ==
            LET hd == t.wss[w].head
                nc == IF t.wss[w].prev_foc # NIL THEN t.wss[w].prev_foc ELSE hd
                t1 == [t EXCEPT !.wss[w].current = nc]
            IN  IF t.fault # "none" THEN t
                ELSE IF c # t.wss[w].current /\ hd = NIL THEN Fail(t, "segv")
                ELSE IF c # t.wss[w].current /\ hd \notin t.alive THEN Fail(t, "ub")
                ELSE IF c # t.wss[w].current /\ t.next[hd] # NIL THEN t
                ELSE IF refocus THEN update_focused_client(t1, nc)
                ELSE t1
        Freed(t) ==
            IF t.fault # "none" THEN t
            ELSE [Free(t, c) EXCEPT !.wss[w].client_cnt = @ - 1]
    IN  Freed(Current(PrevFoc(Unlink(s, c, w))))

remove_client(s, c, refocus) ==
    LET Found(r) ==
            IF r.f # "none" THEN Fail(s, r.f)
            ELSE IF r.v = NIL THEN s
            ELSE RemoveFound(s, c, r.v, refocus)
    IN  IF s.fault # "none" THEN s ELSE Found(RemoveScan(s, c, 1))

\* ---------------------------------------------------------------- creation
\* create_client: calloc returned cell c.
create_client(s, c, xw) ==
    LET hd == s.wss[s.cw].head
        s1 == [s EXCEPT !.alive = @ \cup {c}, !.next[c] = NIL,
                        !.is_fullscreen[c] = FALSE, !.is_urgent[c] = FALSE,
                        !.gap[c] = s.wss[s.cw].gap,
                        !.wss[s.cw].client_cnt = @ + 1]
        Linked(t) ==
            IF t.f # "none" THEN Fail(s, t.f)
            ELSE IF hd = NIL THEN [s1 EXCEPT !.wss[s.cw].head = c]
            ELSE IF t.v # NIL THEN [s1 EXCEPT !.next[t.v] = c]
            ELSE [s1 EXCEPT !.next[hd] = c]
    IN  Linked(prev_client(s, hd, s.cw))

\* -------------------------------------------------------------- workspaces
\* change_ws without the test for the current workspace
change_ws_reenter(s, i) ==
    LET Shown(t) ==
            IF t.fault # "none" THEN t
            ELSE [UnmapAll(MapAll(t, Walk(t, t.wss[i].head).seq),
                           Walk(t, t.wss[t.cw].head).seq)
                     EXCEPT !.last_ws = t.cw, !.cw = i]
    IN  IF s.fault # "none" THEN s
        ELSE IF i > WORKSPACES \/ i <= 0 THEN s
        ELSE update_focused_client(
                 Shown(CheckWalk(CheckWalk(s, s.wss[i].head), s.wss[s.cw].head)),
                 s.wss[i].current)

\* change_ws that does not record the workspace it leaves
change_ws_keeplast(s, i) ==
    LET Shown(t) ==
            IF t.fault # "none" THEN t
            ELSE [UnmapAll(MapAll(t, Walk(t, t.wss[i].head).seq),
                           Walk(t, t.wss[t.cw].head).seq)
                     EXCEPT !.cw = i]
    IN  IF s.fault # "none" THEN s
        ELSE IF i > WORKSPACES \/ i <= 0 \/ i = s.cw THEN s
        ELSE update_focused_client(
                 Shown(CheckWalk(CheckWalk(s, s.wss[i].head), s.wss[s.cw].head)),
                 s.wss[i].current)

change_ws(s, i) ==
    LET Shown(t) ==
            IF t.fault # "none" THEN t
            ELSE [UnmapAll(MapAll(t, Walk(t, t.wss[i].head).seq),
                           Walk(t, t.wss[t.cw].head).seq)
                     EXCEPT !.last_ws = t.cw, !.cw = i]
        Published(t) ==
            IF t.fault # "none" THEN t ELSE [t EXCEPT !.current_desktop = t.cw - 1]
    IN  IF s.fault # "none" THEN s
        ELSE IF i > WORKSPACES \/ i <= 0 \/ i = s.cw THEN s
        ELSE Published(update_focused_client(
                 Shown(CheckWalk(CheckWalk(s, s.wss[i].head), s.wss[s.cw].head)),
                 s.wss[i].current))

focus_last_ws(s) == change_ws(s, s.last_ws)
focus_next_ws(s) == change_ws(s, correct_ws(s.cw + 1))
focus_prev_ws(s) == change_ws(s, correct_ws(s.cw - 1))

focus_next_client(s) ==
    LET cur == s.wss[s.cw].current
        hd  == s.wss[s.cw].head
    IN  IF s.fault # "none" \/ cur = NIL THEN s
        ELSE IF Deref(s, hd) # "none" THEN Fail(s, Deref(s, hd))
        ELSE IF s.next[hd] = NIL THEN s
        ELSE IF cur \notin s.alive THEN Fail(s, "ub")
        ELSE update_focused_client(s, IF s.next[cur] # NIL THEN s.next[cur] ELSE hd)

focus_prev_client(s) ==
    LET cur == s.wss[s.cw].current
        hd  == s.wss[s.cw].head
        s1  == [s EXCEPT !.wss[s.cw].prev_foc = cur]
        Focus(p) ==
            IF p.f # "none" THEN Fail(s1, p.f) ELSE update_focused_client(s1, p.v)
    IN  IF s.fault # "none" \/ cur = NIL THEN s
        ELSE IF Deref(s, hd) # "none" THEN Fail(s, Deref(s, hd))
        ELSE IF s.next[hd] = NIL THEN s
        ELSE Focus(prev_client(s1, cur, s.cw))

\* ------------------------------------------------------- layout parameters
change_layout(s, i) ==
    IF s.fault # "none" THEN s
    ELSE IF i = s.wss[s.cw].layout \/ i >= END_LAYOUT \/ i < 0 THEN s
    ELSE update_focused_client(
             [s EXCEPT !.prev_layout = s.wss[s.cw].layout, !.wss[s.cw].layout = i],
             s.wss[s.cw].current)

\* resize_master without the test of the lower end
resize_master_nolow(s, i) ==
    LET ratio  == s.wss[s.cw].master_ratio
        change == FloatPercent(i)
    IN  IF s.fault # "none" THEN s
        ELSE IF s.wss[s.cw].layout # HSTACK /\ s.wss[s.cw].layout # VSTACK THEN s
        ELSE IF FloatAdd(ratio, change) >= FloatOne THEN s
        ELSE arrange_windows([s EXCEPT !.wss[s.cw].master_ratio = FloatAdd(ratio, change)])

\* The float sum is compared with the doubles 1 and 0.1; 0.1 * 2^30 is no
\* integer, so that sum <= 0.1 iff sum * 2^30 <= floor(2^30 / 10).
resize_master(s, i) ==
    LET ratio  == s.wss[s.cw].master_ratio
        change == FloatPercent(i)
    IN  IF s.fault # "none" THEN s
        ELSE IF s.wss[s.cw].layout # HSTACK /\ s.wss[s.cw].layout # VSTACK THEN s
        ELSE IF \/ FloatAdd(ratio, change) >= FloatOne
                \/ FloatAdd(ratio, change) <= FloatOne \div 10
        THEN s
        ELSE arrange_windows([s EXCEPT !.wss[s.cw].master_ratio = FloatAdd(ratio, change)])

\* -------------------------------------------------------------------- gaps
\* draw_clients: a loop over the current list
draw_clients(s) ==
    IF s.fault # "none" THEN s ELSE CheckWalk(s, s.wss[s.cw].head)

set_fullscreen(s, c, fscr) ==
    LET s1 == [s EXCEPT !.is_fullscreen[c] = fscr]
        hd == s.wss[s.cw].head
    IN  IF s.fault # "none" \/ c = NIL THEN s
        ELSE IF c \notin s.alive THEN Fail(s, "ub")
        ELSE IF fscr = s.is_fullscreen[c] THEN s
        ELSE IF fscr THEN draw_clients(s1)
        ELSE IF Deref(s, hd) # "none" THEN Fail(s, Deref(s, hd))
        ELSE draw_clients(arrange_windows(s1))

\* set_urgent: the border colour it sets is not part of this state.
set_urgent(s, c, urg) ==
    IF s.fault # "none" \/ c = NIL THEN s
    ELSE IF c \notin s.alive THEN Fail(s, "ub")
    ELSE IF urg = s.is_urgent[c] THEN s
    ELSE [s EXCEPT !.is_urgent[c] = urg]

\* for (c = wss[w].head; c && !c->is_urgent; c = c->next): the client the
\* loop stops at, nil at the end of the list.
FirstUrgent(s, w) ==
    LET l == Walk(s, s.wss[w].head)
        hits == {i \in 1..Len(l.seq) : s.is_urgent[l.seq[i]]}
    IN  IF hits # {} THEN Ret(l.seq[Min(hits)]) ELSE Err(WalkFault(l))

\* for (w = 1; w <= WORKSPACES; w++): the scans of the lists, one after the other
RECURSIVE UrgentScan(_, _)
UrgentScan(s, w) ==
    IF w > WORKSPACES \/ s.fault # "none" THEN s
    ELSE UrgentScan(Fail(s, FirstUrgent(s, w).f), w + 1)

\* focus_urgent: the loop over the workspaces has no exit, so c is what the
\* scan of the last workspace ends at and w is WORKSPACES + 1 after it.
focus_urgent(s) ==
    LET Focused(t, c) ==
            IF t.fault # "none" \/ c = NIL THEN t
            ELSE update_focused_client(change_ws(t, WORKSPACES + 1), c)
    IN  Focused(UrgentScan(s, 1), FirstUrgent(s, WORKSPACES).v)

toggle_fullscreen(s) ==
    LET cur == s.wss[s.cw].current
    IN  IF s.fault # "none" \/ cur = NIL THEN s
        ELSE IF cur \notin s.alive THEN Fail(s, "ub")
        ELSE set_fullscreen(s, cur, ~ s.is_fullscreen[cur])

change_client_gaps(s, c, size) ==
    IF s.fault # "none" THEN s
    ELSE IF Deref(s, c) # "none" THEN Fail(s, Deref(s, c))
    ELSE IF s.is_fullscreen[c] THEN s
    ELSE IF s.gap[c] + size <= 0 THEN draw_clients([s EXCEPT !.gap[c] = 0])
    ELSE draw_clients([s EXCEPT !.gap[c] = U16(s.gap[c] + size)])

\* change_gaps, the loop over the clients of a workspace: q is what is left of
\* the list, and how the walk of the list ends is known beforehand.
RECURSIVE GapsOfList(_, _, _, _)
GapsOfList(s, q, size, end) ==
    IF s.fault # "none" THEN s
    ELSE IF q = <<>> THEN Fail(s, end)
    ELSE GapsOfList(change_client_gaps(s, Head(q), size), Tail(q), size, end)

\* change_gaps, type == WORKSPACE
RECURSIVE GapsOfWorkspaces(_, _, _)
GapsOfWorkspaces(s, cnt, size) ==
    LET w == correct_ws(s.cw + (cnt - 1))
        Clients_(t) ==
            GapsOfList(t, Walk(t, t.wss[w].head).seq, size,
                       WalkFault(Walk(t, t.wss[w].head)))
    IN  IF s.fault # "none" \/ cnt <= 0 THEN s
        ELSE IF w \notin WsIdx THEN Fail(s, "ub")
        ELSE GapsOfWorkspaces(Clients_([s EXCEPT !.wss[w].gap = U16(@ + size)]),
                              cnt - 1, size)

\* change_gaps, type == CLIENT
RECURSIVE GapsOfClients(_, _, _, _)
GapsOfClients(s, c, cnt, size) ==
    LET Next_(t, n) ==
            IF t.fault # "none" THEN t
            ELSE IF n.f # "none" THEN Fail(t, n.f)
            ELSE GapsOfClients(t, n.v, cnt - 1, size)
        Changed(t) == Next_(t, next_client(t, c))
    IN  IF s.fault # "none" \/ cnt <= 0 THEN s
        ELSE Changed(change_client_gaps(s, c, size))

change_gaps(s, type, cnt, size) ==
    IF s.fault # "none" THEN s
    ELSE IF type = WORKSPACE THEN GapsOfWorkspaces(s, cnt, size)
    ELSE IF type = CLIENT THEN GapsOfClients(s, s.wss[s.cw].current, cnt, size)
    ELSE s

op_shrink_gaps(s, type, cnt) == change_gaps(s, type, cnt, 0 - OP_GAP_SIZE)
op_grow_gaps(s, type, cnt)   == change_gaps(s, type, cnt, OP_GAP_SIZE)

\* ------------------------------------------------------------------ killing
kill_client(s, ws, arrange) ==
    LET cur == s.wss[ws].current
    IN  IF s.fault # "none" \/ cur = NIL THEN s
        ELSE IF cur \notin s.alive THEN Fail(s, "ub")
        ELSE remove_client([s EXCEPT !.mapped = @ \ {Win(cur)}], cur, arrange)

\* while (wss[ws].head): a pass that changes nothing is repeated for ever
RECURSIVE kill_ws(_, _)
kill_ws(s, ws) ==
    LET Again(t) == IF t = s THEN Fail(s, "hang") ELSE kill_ws(t, ws)
    IN  IF s.fault # "none" \/ s.wss[ws].head = NIL THEN s
        ELSE Again(kill_client(s, ws, s.wss[ws].client_cnt = 1 /\ s.cw = ws))

RECURSIVE op_kill(_, _, _)
op_kill(s, type, cnt) ==
    IF s.fault # "none" \/ cnt <= 0 THEN s
    ELSE IF type = WORKSPACE
    THEN IF correct_ws(s.cw + cnt - 1) \notin WsIdx THEN Fail(s, "ub")
         ELSE op_kill(kill_ws(s, correct_ws(s.cw + cnt - 1)), type, cnt - 1)
    ELSE IF type = CLIENT
    THEN op_kill(kill_client(s, s.cw, cnt = 1), type, cnt - 1)
    ELSE s

\* ------------------------------------------------------ moving to a workspace
client_to_ws(s, c, ws, follow) ==
    LET th == s.wss[ws].head
        Focused(t, prev) ==
            IF follow
            THEN change_ws([t EXCEPT !.wss[ws].current = c], ws)
            ELSE update_focused_client(t, prev.v)
        Taken(t, prev) ==
            [(IF c = t.wss[s.cw].head \/ prev.v = NIL
              THEN [t EXCEPT !.wss[s.cw].head = t.next[c]]
              ELSE [t EXCEPT !.next[prev.v] = t.next[c]])
                EXCEPT !.wss[s.cw].current = prev.v,
                       !.wss[s.cw].client_cnt = @ - 1,
                       !.next[c] = NIL,
                       !.mapped = @ \ {Win(c)}]
        Added(t, last) ==
            [(IF th = NIL THEN [t EXCEPT !.wss[ws].head = c]
              ELSE IF last.v # NIL THEN [t EXCEPT !.next[last.v] = c]
              ELSE [t EXCEPT !.next[th] = c])
                EXCEPT !.wss[ws].current = c, !.wss[ws].client_cnt = @ + 1]
        Move(prev, last) ==
            IF last.f # "none" THEN Fail(s, last.f)
            ELSE IF c \notin s.alive THEN Fail(s, "ub")
            ELSE Focused(Taken(Added(s, last), prev), prev)
        From(prev) ==
            IF prev.f # "none" THEN Fail(s, prev.f)
            ELSE IF c = NIL \/ ws = s.cw THEN s
            ELSE IF ws \notin WsIdx THEN Fail(s, "ub")
            ELSE Move(prev, prev_client(s, th, ws))
    IN  IF s.fault # "none" THEN s ELSE From(prev_client(s, c, s.cw))

current_to_ws(s, i) == client_to_ws(s, s.wss[s.cw].current, i, FOLLOW_MOVE)

\* ---------------------------------------------------------- delete register
stack_push(s, c) ==
    IF c = NIL THEN s
    ELSE IF Len(s.del_reg) >= DELETE_REGISTER_SIZE THEN s
    ELSE [s EXCEPT !.del_reg = Append(@, c)]

\* stack_pop that returns the oldest entry
stack_pop_oldest(s) ==
    IF Len(s.del_reg) = 0 THEN [v |-> NIL, s |-> s]
    ELSE [v |-> s.del_reg[1],
          s |-> [s EXCEPT !.del_reg = SubSeq(@, 1, Len(@) - 1)]]

\* The value stack_pop returns, and the register it leaves.
stack_pop(s) ==
    IF Len(s.del_reg) = 0 THEN [v |-> NIL, s |-> s]
    ELSE [v |-> s.del_reg[Len(s.del_reg)],
          s |-> [s EXCEPT !.del_reg = SubSeq(@, 1, Len(@) - 1)]]

\* op_cut, the loop that cuts whole workspaces (lines 2724-2734)
RECURSIVE CutWorkspaces(_, _)
CutWorkspaces(s, cnt) ==
    LET w == correct_ws(s.cw + cnt - 1)
        z == correct_ws(s.cw + (cnt - 1) - 1)
        Cut(t) ==
            IF t.fault # "none" THEN t
            ELSE [stack_push(UnmapAll(t, Walk(t, t.wss[w].head).seq), t.wss[w].head)
                     EXCEPT !.wss[w].head = NIL, !.wss[w].prev_foc = NIL,
                            !.wss[w].current = NIL]
        Zeroed(t) ==
            IF t.fault # "none" THEN t
            ELSE IF z \notin WsIdx THEN Fail(t, "ub")
            ELSE CutWorkspaces([t EXCEPT !.wss[z].client_cnt = 0], cnt - 1)
    IN  IF s.fault # "none" \/ cnt <= 0 THEN s
        ELSE IF w \notin WsIdx THEN Fail(s, "ub")
        ELSE Zeroed(Cut(CheckWalk(s, s.wss[w].head)))

\* op_cut, the loop that walks the clients to cut (lines 2739-2753)
RECURSIVE CutWalk(_, _, _, _)
CutWalk(s, tail, cnt, wrap) ==
    LET Out(t) == [s |-> t, tail |-> tail, wrap |-> wrap]
        Taken(t, n2, join) ==
            IF n2.f # "none" THEN Out(Fail(t, n2.f))
            ELSE IF Deref(t, n2.v) # "none" THEN Out(Fail(t, Deref(t, n2.v)))
            ELSE CutWalk([t EXCEPT !.mapped = @ \ {Win(n2.v)},
                                   !.wss[s.cw].client_cnt = @ - 1],
                         n2.v, cnt - 1, wrap \/ join)
        Stepped(t, join) == Taken(t, next_client(t, tail), join)
        Unfocused(t, join) ==
            Stepped(IF tail = t.wss[s.cw].prev_foc
                    THEN [t EXCEPT !.wss[s.cw].prev_foc = NIL] ELSE t,
                    join)
        Joined(n1) ==
            IF n1.f # "none" THEN Out(Fail(s, n1.f))
            ELSE IF s.next[tail] = NIL /\ n1.v # NIL
            THEN Unfocused([s EXCEPT !.next[tail] = n1.v], TRUE)
            ELSE Unfocused(s, FALSE)
    IN  IF s.fault # "none" \/ cnt <= 1 THEN Out(s)
        ELSE IF Deref(s, tail) # "none" THEN Out(Fail(s, Deref(s, tail)))
        ELSE Joined(next_client(s, tail))

\* op_cut, cutting cnt clients from current on (lines 2736-2768)
CutClients(s, head, head_prev, cnt) ==
    LET Spliced(t, tail, wrap, nt) ==
            LET bad == IF Deref(t, tail) # "none" THEN Deref(t, tail)
                       ELSE IF head = t.wss[t.cw].head THEN nt.f
                       ELSE IF wrap \/ t.next[tail] # head_prev THEN Deref(t, head_prev)
                       ELSE "none"
                t1  == IF head = t.wss[t.cw].head
                       THEN [t EXCEPT !.wss[t.cw].head = IF head = nt.v THEN NIL ELSE nt.v]
                       ELSE IF wrap
                       THEN [t EXCEPT !.wss[t.cw].head = t.next[tail],
                                      !.next[head_prev] = NIL]
                       ELSE IF t.next[tail] # head_prev
                       THEN [t EXCEPT !.next[head_prev] = t.next[tail]]
                       ELSE t
            IN  IF bad # "none" THEN Fail(t, bad)
                ELSE stack_push(
                         update_focused_client(
                             [t1 EXCEPT !.wss[t.cw].current = head_prev,
                                        !.next[tail] = NIL],
                             head_prev),
                         head)
        Walked(r) ==
            IF r.s.fault # "none" THEN r.s
            ELSE Spliced(r.s, r.tail, r.wrap, next_client(r.s, r.tail))
    IN  IF head \notin s.alive THEN Fail(s, "ub")
        ELSE Walked(CutWalk([s EXCEPT !.mapped = @ \ {Win(head)},
                                      !.wss[s.cw].client_cnt = @ - 1],
                            head, cnt, FALSE))

\* op_cut without the test that the register has room for cnt workspaces
op_cut_noroom(s, type, cnt) ==
    LET head == s.wss[s.cw].current
        Cut(head_prev) ==
            IF head_prev.f # "none" THEN Fail(s, head_prev.f)
            ELSE IF head = NIL THEN s
            ELSE IF Len(s.del_reg) >= DELETE_REGISTER_SIZE THEN s
            ELSE IF (type = CLIENT /\ cnt >= s.wss[s.cw].client_cnt) \/ type = WORKSPACE
            THEN CutWorkspaces(s, cnt)
            ELSE IF type = CLIENT THEN CutClients(s, head, head_prev.v, cnt)
            ELSE s
    IN  IF s.fault # "none" THEN s ELSE Cut(prev_client(s, head, s.cw))

op_cut(s, type, cnt) ==
    LET head == s.wss[s.cw].current
        Cut(head_prev) ==
            IF head_prev.f # "none" THEN Fail(s, head_prev.f)
            ELSE IF head = NIL THEN s
            ELSE IF Len(s.del_reg) >= DELETE_REGISTER_SIZE THEN s
            ELSE IF (type = CLIENT /\ cnt >= s.wss[s.cw].client_cnt) \/ type = WORKSPACE
            THEN IF cnt + Len(s.del_reg) > DELETE_REGISTER_SIZE THEN s
                 ELSE CutWorkspaces(s, cnt)
            ELSE IF type = CLIENT THEN CutClients(s, head, head_prev.v, cnt)
            ELSE s
    IN  IF s.fault # "none" THEN s ELSE Cut(prev_client(s, head, s.cw))

\* paste, the three splices; k walks the popped sublist once it is linked in,
\* t is what followed current
paste(s) ==
    LET Mapped(p, k, t) ==
            IF k.end # "nil" THEN Fail(p, WalkFault(k))
            ELSE [MapAll(p, k.seq)
                     EXCEPT !.wss[p.cw].client_cnt = @ + Len(k.seq),
                            !.wss[p.cw].current = k.seq[Len(k.seq)],
                            !.next[k.seq[Len(k.seq)]] = t]
        Linked(p, head, t) == Mapped(p, Walk(p, head), t)
        Popped(p, head, cur) ==
            IF cur = NIL
            THEN Linked([p EXCEPT !.wss[p.cw].head = head, !.wss[p.cw].current = head],
                        head, NIL)
            ELSE IF cur \notin p.alive THEN Fail(p, "ub")
            ELSE Linked([p EXCEPT !.next[cur] = head], head, p.next[cur])
        Focused(t) == update_focused_client(t, t.wss[t.cw].current)
        Pop(r) ==
            IF r.v = NIL THEN r.s
            ELSE Focused(Popped(r.s, r.v, r.s.wss[r.s.cw].current))
    IN  IF s.fault # "none" THEN s ELSE Pop(stack_pop(s))

\* ---------------------------------------------------------------- scratchpad
send_to_scratchpad(s) ==
    LET c == s.wss[s.cw].current
        w == s.cw
        Skipped(pc) ==
            IF pc.f # "none" THEN Fail(s, pc.f)
            ELSE IF c \notin s.alive THEN Fail(s, "ub")
            ELSE IF pc.v # NIL THEN [s EXCEPT !.next[pc.v] = s.next[c]]
            ELSE s
        PrevFoc(t) ==
            IF t.fault # "none" THEN t
            ELSE IF c = t.wss[w].prev_foc
            THEN SetPrevFoc(t, w, prev_client(t, t.wss[w].current, w))
            ELSE t
        Current(t) ==
            IF t.fault # "none" THEN t
            ELSE [t EXCEPT !.wss[w].current =
                     IF t.wss[w].prev_foc # NIL THEN t.wss[w].prev_foc ELSE t.wss[w].head]
        NewHead(t) ==
            IF t.fault # "none" THEN t
            ELSE [(IF c = t.wss[w].head
                   THEN [t EXCEPT !.wss[w].head = t.next[c], !.wss[w].current = t.next[c]]
                   ELSE t)
                     EXCEPT !.mapped = @ \ {Win(c)}, !.wss[w].client_cnt = @ - 1]
        Focused(t) == update_focused_client(t, t.wss[w].current)
        Kept(t) == IF t.fault # "none" THEN t ELSE [t EXCEPT !.scratchpad = c]
    IN  IF s.fault # "none" THEN s
        ELSE IF s.scratchpad # NIL \/ c = NIL THEN s
        ELSE Kept(Focused(NewHead(Current(PrevFoc(Skipped(prev_client(s, c, w)))))))

get_from_scratchpad(s) ==
    LET w  == s.cw
        sp == s.scratchpad
        hd == s.wss[w].head
        Shown(t) ==
            update_focused_client(
                [t EXCEPT !.wss[w].prev_foc = s.wss[w].current,
                          !.wss[w].current = sp,
                          !.scratchpad = NIL,
                          !.wss[w].client_cnt = @ + 1,
                          !.mapped = @ \cup {Win(sp)}],
                sp)
        Last(pt) ==
            IF pt.f # "none" THEN Fail(s, pt.f)
            ELSE IF pt.v = NIL THEN Fail(s, "segv")
            ELSE IF sp \notin s.alive THEN Fail(s, "ub")
            ELSE Shown([s EXCEPT !.next[pt.v] = sp])
    IN  IF s.fault # "none" \/ sp = NIL THEN s
        ELSE IF hd # NIL /\ hd \notin s.alive THEN Fail(s, "ub")
        ELSE IF hd # NIL /\ s.next[hd] # NIL THEN Last(prev_client(s, hd, w))
        ELSE IF sp \notin s.alive THEN Fail(s, "ub")
        ELSE IF hd = NIL THEN Shown([s EXCEPT !.wss[w].head = sp])
        ELSE Shown([s EXCEPT !.next[hd] = sp])

\* ------------------------------------------------------------ modes, replay
\* cur_mode is an unsigned int; the state keeps (int)cur_mode, the value the
\* code compares and prints from: -1 stands for UINT_MAX.
change_mode(s, i) ==
    IF s.fault # "none" \/ i >= END_MODES \/ i = s.cur_mode THEN s
    ELSE [s EXCEPT !.cur_mode = i]

\* save_last_ocm that does not store the count
save_last_ocm_nocnt(s, op, type, cnt) ==
    [s EXCEPT !.rep_state.last_op = op, !.rep_state.last_type = type,
              !.rep_state.last_cmd = NULL]

save_last_ocm(s, op, type, cnt) ==
    [s EXCEPT !.rep_state.last_op = op, !.rep_state.last_type = type,
              !.rep_state.last_cnt = cnt, !.rep_state.last_cmd = NULL]

save_last_cmd(s, cmd, arg) ==
    [s EXCEPT !.rep_state.last_cmd = cmd, !.rep_state.last_arg = arg,
              !.rep_state.last_op = NULL]

\* The handler is about to make the call e.
Log(s, e) == [s EXCEPT !.calls = Append(@, e)]

\* A call through an operator pointer: op(type, cnt).
InvokeOp(s, op, type, cnt) ==
    IF s.fault # "none" THEN s
    ELSE IF op = NULL THEN Fail(s, "segv")
    ELSE CASE op = "op_kill" -> op_kill(Log(s, <<op, type, cnt>>), type, cnt)
           [] op = "op_cut"  -> op_cut(Log(s, <<op, type, cnt>>), type, cnt)

\* The commands other than replay, by name.
Command(s, func, arg) ==
    CASE func = "change_ws"           -> change_ws(s, arg)
      [] func = "current_to_ws"       -> current_to_ws(s, arg)
      [] func = "focus_last_ws"       -> focus_last_ws(s)
      [] func = "focus_next_ws"       -> focus_next_ws(s)
      [] func = "focus_prev_ws"       -> focus_prev_ws(s)
      [] func = "focus_next_client"   -> focus_next_client(s)
      [] func = "focus_prev_client"   -> focus_prev_client(s)
      [] func = "paste"               -> paste(s)
      [] func = "send_to_scratchpad"  -> send_to_scratchpad(s)
      [] func = "get_from_scratchpad" -> get_from_scratchpad(s)
      [] func = "change_mode"         -> change_mode(s, arg)

\* replay; a record that held replay itself would recurse until the stack is gone
replay(s) ==
    LET r == s.rep_state
    IN  IF s.fault # "none" THEN s
        ELSE IF r.last_cmd = "replay" THEN Fail(s, "segv")
        ELSE IF r.last_cmd # NULL
        THEN Command(Log(s, <<r.last_cmd, r.last_arg>>), r.last_cmd, r.last_arg)
        ELSE InvokeOp(s, r.last_op, r.last_type, r.last_cnt)

\* A call through a command pointer: func(&arg).
Invoke(s, func, arg) ==
    IF s.fault # "none" THEN s
    ELSE IF func = NULL THEN Fail(s, "segv")
    ELSE IF func = "replay" THEN replay(Log(s, <<func, arg>>))
    ELSE Command(Log(s, <<func, arg>>), func, arg)

\* ------------------------------------------------------------ socket commands
\* quit_howm that leaves the exit code alone
quit_howm_noretval(s, i) ==
    IF s.fault # "none" THEN s ELSE [s EXCEPT !.running = FALSE]

quit_howm(s, i) ==
    IF s.fault # "none" THEN s ELSE [s EXCEPT !.retval = i, !.running = FALSE]

restart_howm(s) ==
    IF s.fault # "none" THEN s ELSE [s EXCEPT !.running = FALSE, !.restart = TRUE]

\* enum arg_types
TYPE_IGNORE == 0
TYPE_INT    == 1
TYPE_CMD    == 2

\* The rows of commands[] whose functions are modelled, in the table's order.
commands ==
    << [name |-> "resize_master",       func |-> "resize_master",       operator |-> NULL, argc |-> 1, arg_type |-> TYPE_INT],
       [name |-> "change_layout",       func |-> "change_layout",       operator |-> NULL, argc |-> 1, arg_type |-> TYPE_INT],
       [name |-> "change_mode",         func |-> "change_mode",         operator |-> NULL, argc |-> 1, arg_type |-> TYPE_INT],
       [name |-> "toggle_fullscreen",   func |-> "toggle_fullscreen",   operator |-> NULL, argc |-> 0, arg_type |-> TYPE_INT],
       [name |-> "quit_howm",           func |-> "quit_howm",           operator |-> NULL, argc |-> 1, arg_type |-> TYPE_INT],
       [name |-> "restart_howm",        func |-> "restart_howm",        operator |-> NULL, argc |-> 1, arg_type |-> TYPE_INT],
       [name |-> "resize_master",       func |-> "resize_master",       operator |-> NULL, argc |-> 1, arg_type |-> TYPE_INT],
       [name |-> "replay",              func |-> "replay",              operator |-> NULL, argc |-> 0, arg_type |-> TYPE_INT],
       [name |-> "paste",               func |-> "paste",               operator |-> NULL, argc |-> 0, arg_type |-> TYPE_INT],
       [name |-> "send_to_scratchpad",  func |-> "send_to_scratchpad",  operator |-> NULL, argc |-> 0, arg_type |-> TYPE_INT],
       [name |-> "get_from_scratchpad", func |-> "get_from_scratchpad", operator |-> NULL, argc |-> 0, arg_type |-> TYPE_INT],
       [name |-> "focus_urgent",        func |-> "focus_urgent",        operator |-> NULL, argc |-> 0, arg_type |-> TYPE_INT],
       [name |-> "focus_prev_client",   func |-> "focus_prev_client",   operator |-> NULL, argc |-> 0, arg_type |-> TYPE_INT],
       [name |-> "focus_next_client",   func |-> "focus_next_client",   operator |-> NULL, argc |-> 0, arg_type |-> TYPE_INT],
       [name |-> "focus_last_ws",       func |-> "focus_last_ws",       operator |-> NULL, argc |-> 0, arg_type |-> TYPE_INT],
       [name |-> "focus_next_ws",       func |-> "focus_next_ws",       operator |-> NULL, argc |-> 0, arg_type |-> TYPE_INT],
       [name |-> "focus_prev_ws",       func |-> "focus_prev_ws",       operator |-> NULL, argc |-> 0, arg_type |-> TYPE_INT],
       [name |-> "change_ws",           func |-> "change_ws",           operator |-> NULL, argc |-> 1, arg_type |-> TYPE_INT],
       [name |-> "current_to_ws",       func |-> "current_to_ws",       operator |-> NULL, argc |-> 1, arg_type |-> TYPE_INT],
       [name |-> "op_kill",             func |-> NULL, operator |-> "op_kill",        argc |-> 2, arg_type |-> TYPE_IGNORE],
       [name |-> "op_shrink_gaps",      func |-> NULL, operator |-> "op_shrink_gaps", argc |-> 2, arg_type |-> TYPE_IGNORE],
       [name |-> "op_grow_gaps",        func |-> NULL, operator |-> "op_grow_gaps",   argc |-> 2, arg_type |-> TYPE_IGNORE],
       [name |-> "op_cut",              func |-> NULL, operator |-> "op_cut",         argc |-> 2, arg_type |-> TYPE_IGNORE] >>

\* commands[i].func(&(Arg){ .i = arg })
CommandFunc(s, func, arg) ==
    LET t == Log(s, <<func, arg>>)
    IN  CASE func = "resize_master"     -> resize_master(t, arg)
          [] func = "change_layout"     -> change_layout(t, arg)
          [] func = "toggle_fullscreen" -> toggle_fullscreen(t)
          [] func = "quit_howm"         -> quit_howm(t, arg)
          [] func = "restart_howm"      -> restart_howm(t)
          [] func = "replay"            -> replay(t)
          [] func = "focus_urgent"      -> focus_urgent(t)
          [] OTHER                      -> Command(t, func, arg)

\* commands[i].operator(type, cnt)
CommandOperator(s, op, type, cnt) ==
    LET t == Log(s, <<op, type, cnt>>)
    IN  CASE op = "op_kill"        -> op_kill(t, type, cnt)
          [] op = "op_cut"         -> op_cut(t, type, cnt)
          [] op = "op_shrink_gaps" -> op_shrink_gaps(t, type, cnt)
          [] op = "op_grow_gaps"   -> op_grow_gaps(t, type, cnt)

\* The bytes of a message: NUL, a character, or the characters of a command name
\* taken as one.
NUL == "\\0"

\* ipc_process_args: the strings of msg, each up to its NUL; what follows the last
\* NUL is no string. args[argc] = NULL is the end of the sequence.
RECURSIVE SplitArgs(_, _, _)
SplitArgs(msg, arg, args) ==
    IF msg = <<>> THEN args
    ELSE IF Head(msg) = NUL THEN SplitArgs(Tail(msg), <<>>, Append(args, arg))
    ELSE SplitArgs(Tail(msg), Append(arg, Head(msg)), args)

ipc_process_args(msg, err) ==
    LET args == SplitArgs(msg, <<>>, <<>>)
    IN  IF Len(args) < 1 THEN [args |-> <<>>, err |-> IPC_ERR_TOO_FEW_ARGS]
        ELSE [args |-> args, err |-> err]

\* ipc_process_cmd, the branch taken for the row cmd that args[0] names: the state
\* it leaves and the status.
CommandRow(s, cmd, args) ==
    LET Arg1(r) == [s |-> CommandFunc(s, cmd.func, r.v), err |-> r.err]
        Op(type, r) == [s |-> CommandOperator(s, cmd.operator, type, r.v), err |-> r.err]
        given(i) == Len(args) > i
    IN  IF cmd.argc = 0
        THEN [s |-> CommandFunc(s, cmd.func, 0), err |-> IPC_ERR_NONE]
        ELSE IF cmd.argc = 1 /\ given(1) /\ cmd.arg_type = TYPE_INT
        THEN Arg1(ipc_arg_to_int(args[2], IPC_ERR_NONE))
        ELSE IF cmd.argc = 2 /\ given(1) /\ given(2) /\ args[3] # <<>> /\ args[3][1] = "w"
        THEN Op(WORKSPACE, ipc_arg_to_int(args[2], IPC_ERR_NONE))
        ELSE IF cmd.argc = 2 /\ given(1) /\ given(2) /\ args[3] # <<>> /\ args[3][1] = "c"
        THEN Op(CLIENT, ipc_arg_to_int(args[2], IPC_ERR_NONE))
        ELSE [s |-> s, err |-> IPC_ERR_SYNTAX]

ipc_process_cmd(s, msg) ==
    LET r    == ipc_process_args(msg, IPC_ERR_NONE)
        rows == {i \in 1..Len(commands) : r.args # <<>> /\ r.args[1] = <<commands[i].name>>}
    IN  IF r.err # IPC_ERR_NONE THEN [s |-> s, err |-> r.err]
        ELSE IF rows = {} THEN [s |-> s, err |-> IPC_ERR_NO_CMD]
        ELSE CommandRow(s, commands[Min(rows)], r.args)

\* ------------------------------------------------------ key tables (config.h)
XK_0      == 48
XK_1      == XK_0 + 1
XK_9      == XK_0 + 9
XK_period == 46
XK_c      == 99
XK_d      == 100
XK_f      == 102
XK_j      == 106
XK_n      == 110
XK_p      == 112
XK_q      == 113
XK_w      == 119
XK_x      == 120

MODKEY      == "Mod4"
COUNT_MOD   == {MODKEY}
numlockmask == {"Mod2"}

operators ==
    << [mod |-> {MODKEY}, sym |-> XK_q, mode |-> NORMAL, func |-> "op_kill"],
       [mod |-> {MODKEY}, sym |-> XK_d, mode |-> NORMAL, func |-> "op_cut"] >>

motions ==
    << [mod |-> {MODKEY}, sym |-> XK_c, type |-> CLIENT],
       [mod |-> {MODKEY}, sym |-> XK_w, type |-> WORKSPACE] >>

keys ==
    << [mod |-> {MODKEY}, mode |-> NORMAL, sym |-> XK_period, func |-> "replay", arg |-> 0],
       [mod |-> {MODKEY}, mode |-> NORMAL, sym |-> XK_p, func |-> "paste", arg |-> 0],
       [mod |-> {MODKEY}, mode |-> NORMAL, sym |-> XK_j, func |-> "focus_next_client", arg |-> 0],
       [mod |-> {MODKEY}, mode |-> NORMAL, sym |-> XK_f, func |-> "change_mode", arg |-> FOCUS],
       [mod |-> {MODKEY}, mode |-> FOCUS, sym |-> XK_n, func |-> "change_mode", arg |-> NORMAL],
       [mod |-> {MODKEY}, mode |-> FOCUS, sym |-> XK_period, func |-> "replay", arg |-> 0],
       [mod |-> {MODKEY}, mode |-> FOCUS, sym |-> XK_0 + 2, func |-> "change_ws", arg |-> 2] >>

\* ------------------------------------------------------------- key presses
CLEANMASK(mask) == mask \ (numlockmask \cup {"Lock"})
EQUALMODS(mask, omask) == CLEANMASK(mask) = CLEANMASK(omask)

\* case OPERATOR_STATE: the first operator row that matches
OperatorCase(s, keysym, state) ==
    LET hits == {i \in 1..Len(operators) :
                    /\ keysym = operators[i].sym
                    /\ EQUALMODS(operators[i].mod, state)
                    /\ operators[i].mode = s.cur_mode}
    IN  IF hits = {} THEN s
        ELSE [s EXCEPT !.operator_func = operators[Min(hits)].func,
                       !.cur_state = COUNT_STATE]

\* case MOTION_STATE without the reset of the pending count
RECURSIVE MotionCase_keepcnt(_, _, _, _)
MotionCase_keepcnt(s, keysym, state, i) ==
    IF s.fault # "none" \/ i > Len(motions) THEN s
    ELSE IF keysym = motions[i].sym /\ EQUALMODS(motions[i].mod, state)
    THEN LET Saved(t) == save_last_ocm(t, t.operator_func, motions[i].type, t.cur_cnt)
             Reset(t) == [t EXCEPT !.cur_state = OPERATOR_STATE]
         IN  MotionCase_keepcnt(
                 Reset(Saved(InvokeOp(s, s.operator_func, motions[i].type, s.cur_cnt))),
                 keysym, state, i + 1)
    ELSE MotionCase_keepcnt(s, keysym, state, i + 1)

\* case MOTION_STATE: every motion row that matches, from row i on
RECURSIVE MotionCase(_, _, _, _)
MotionCase(s, keysym, state, i) ==
    IF s.fault # "none" \/ i > Len(motions) THEN s
    ELSE IF keysym = motions[i].sym /\ EQUALMODS(motions[i].mod, state)
    THEN LET Saved(t) == save_last_ocm(t, t.operator_func, motions[i].type, t.cur_cnt)
             Reset(t) == [t EXCEPT !.cur_state = OPERATOR_STATE, !.cur_cnt = 1]
         IN  MotionCase(
                 Reset(Saved(InvokeOp(s, s.operator_func, motions[i].type, s.cur_cnt))),
                 keysym, state, i + 1)
    ELSE MotionCase(s, keysym, state, i + 1)

\* case COUNT_STATE that ends the switch instead of falling through to MOTION_STATE
CountCase_nofall(s, keysym, state) ==
    IF EQUALMODS(COUNT_MOD, state) /\ XK_1 <= keysym /\ keysym <= XK_9
    THEN [s EXCEPT !.cur_cnt = keysym - XK_0, !.cur_state = MOTION_STATE]
    ELSE s

\* case COUNT_STATE: a count digit, or else the key is looked up as a motion
CountCase(s, keysym, state) ==
    IF EQUALMODS(COUNT_MOD, state) /\ XK_1 <= keysym /\ keysym <= XK_9
    THEN [s EXCEPT !.cur_cnt = keysym - XK_0, !.cur_state = MOTION_STATE]
    ELSE MotionCase(s, keysym, state, 1)

\* the loop over keys, from row i on
RECURSIVE KeysLoop(_, _, _, _)
KeysLoop(s, keysym, state, i) ==
    IF s.fault # "none" \/ i > Len(keys) THEN s
    ELSE IF /\ keysym = keys[i].sym
            /\ EQUALMODS(keys[i].mod, state)
            /\ keys[i].func # NULL
            /\ keys[i].mode = s.cur_mode
    THEN LET Saved(t) == IF keys[i].func # "replay"
                         THEN save_last_cmd(t, keys[i].func, keys[i].arg)
                         ELSE t
         IN  KeysLoop(Saved(Invoke(s, keys[i].func, keys[i].arg)), keysym, state, i + 1)
    ELSE KeysLoop(s, keysym, state, i + 1)

key_press_event_fn(s, keysym, state) ==
    KeysLoop(CASE s.cur_state = OPERATOR_STATE -> OperatorCase(s, keysym, state)
               [] s.cur_state = COUNT_STATE    -> CountCase(s, keysym, state)
               [] s.cur_state = MOTION_STATE   -> MotionCase(s, keysym, state, 1)
               [] OTHER                        -> s,
             keysym, state, 1)

\* ------------------------------------------------------------------- rules
\* A rule row that matched: its workspace (0 = current) and follow flag. The
\* rows name the current workspace, the last one, or one past the last.
NoRule   == [ws |-> -1, follow |-> FALSE]
RuleRows == {NoRule} \cup [ws : {0, WORKSPACES, WORKSPACES + 1}, follow : BOOLEAN]

apply_rules(s, c, rule) ==
    LET To(ws) == client_to_ws(Log(s, <<"client_to_ws", ws>>), c, ws, rule.follow)
    IN  IF s.fault # "none" \/ rule = NoRule THEN s
        ELSE To(IF rule.ws = 0 THEN s.cw ELSE rule.ws)

\* ---------------------------------------------------------------- X events
map_event_fn(s, xw, c, override_redirect, dock, rule) ==
    LET Shown(t) ==
            IF t.fault # "none" THEN t ELSE [t EXCEPT !.mapped = @ \cup {xw}]
        Created(t) ==
            IF t.fault # "none" \/ dock THEN t
            ELSE update_focused_client(Shown(arrange_windows(apply_rules(t, c, rule))), c)
        Known(f) ==
            IF f.f # "none" THEN Fail(s, f.f)
            ELSE IF override_redirect \/ f.v # NIL THEN s
            ELSE Created(create_client(s, c, xw))
    IN  Known(find_client_by_win(s, xw))

destroy_event_fn(s, xw) ==
    LET Found(f) ==
            IF f.f # "none" THEN Fail(s, f.f)
            ELSE IF f.v = NIL THEN s
            ELSE arrange_windows(remove_client(s, f.v, TRUE))
    IN  Found(find_client_by_win(s, xw))

\* !ue->event == screen->root compares 0 or 1 with the root window id: never true
unmap_event_fn(s, xw) ==
    Fail(s, find_client_by_win(s, xw).f)

\* client messages: _NET_CLOSE_WINDOW, _NET_ACTIVE_WINDOW, _NET_CURRENT_DESKTOP
client_message_event_fn(s, xw, type, data) ==
    LET Found(f) ==
            IF f.f # "none" THEN Fail(s, f.f)
            ELSE IF f.v = NIL THEN s
            ELSE IF type = "_NET_CLOSE_WINDOW"
            THEN arrange_windows(remove_client(s, f.v, TRUE))
            ELSE IF type = "_NET_ACTIVE_WINDOW"
            THEN update_focused_client(s, f.v)
            ELSE IF type = "_NET_CURRENT_DESKTOP" /\ data < WORKSPACES
            THEN change_ws(Log(s, <<"change_ws", data>>), data)
            ELSE s
    IN  Found(find_client_by_win(s, xw))

\* Windows the X server knows: shown, or owned by a client.
KnownWindows == mapped \cup {Win(c) : c \in alive}

\* ------------------------------------------------------------------ history
\* How often each window handle is held in the workspace lists.
Held(s) ==
    [x \in Windows |->
        Cardinality({w \in WsIdx : \E c \in SeqSet(Walk(s, s.wss[w].head).seq) : Win(c) = x})]

HeldSize(s) ==
    Cardinality({<<w, c>> \in WsIdx \X Clients : c \in SeqSet(Walk(s, s.wss[w].head).seq)})

\* What the handler invoked, replay's own entry left out.
RECURSIVE Effective(_)
Effective(q) ==
    IF q = <<>> THEN <<>>
    ELSE IF Head(q)[1] = "replay" THEN Effective(Tail(q))
    ELSE <<Head(q)>> \o Effective(Tail(q))

NoCuts == [phase |-> "idle", base |-> [x \in Windows |-> 0], k |-> 0, n |-> 0, reg0 |-> 0]

\* The running sequence of accepted cuts (k clients removed so far) and pastes
\* (n so far), after a handler that ran from the current state to s.
NextCutLog(s) ==
    LET Cut(removed) ==
            IF cut_log.phase = "cut"
            THEN [cut_log EXCEPT !.k = @ + removed]
            ELSE [phase |-> "cut", base |-> Held(State), k |-> removed, n |-> 0,
                  reg0 |-> Len(del_reg)]
        After(e) ==
            IF Len(e) # 1 THEN NoCuts
            ELSE IF e[1][1] = "op_cut" /\ Len(s.del_reg) > Len(del_reg)
            THEN Cut(HeldSize(State) - HeldSize(s))
            ELSE IF /\ e[1][1] = "paste"
                    /\ cut_log.phase \in {"cut", "paste"}
                    /\ cut_log.n < cut_log.k
            THEN [cut_log EXCEPT !.phase = "paste", !.n = @ + 1]
            ELSE NoCuts
    IN  After(Effective(s.calls))

\* The record as a call: what replay would invoke.
Recorded(r) ==
    IF r.last_cmd # NULL THEN <<r.last_cmd, r.last_arg>>
    ELSE IF r.last_op # NULL THEN <<r.last_op, r.last_type, r.last_cnt>>
    ELSE <<>>

\* The calls a key press made itself (not the one replay made for it), replay left out.
RECURSIVE Produced(_)
Produced(q) ==
    IF q = <<>> THEN <<>>
    ELSE IF Head(q)[1] = "replay" THEN Produced(Tail(Tail(q)))
    ELSE <<Head(q)>> \o Produced(Tail(q))

NextLastX(s) ==
    LET Last(p) == IF p = <<>> THEN last_x ELSE p[Len(p)]
    IN  Last(Produced(s.calls))

IsOperatorKey(keysym, state) ==
    \E i \in 1..Len(operators) :
        /\ keysym = operators[i].sym
        /\ EQUALMODS(operators[i].mod, state)
        /\ operators[i].mode = cur_mode
IsCountDigit(keysym, state) ==
    CLEANMASK(state) = CLEANMASK(COUNT_MOD) /\ \E d \in 1..9 : keysym = XK_0 + d
IsMotionKey(keysym, state) ==
    \E i \in 1..Len(motions) : keysym = motions[i].sym /\ EQUALMODS(motions[i].mod, state)

NothingTyped ==
    [stage |-> "none", op |-> NULL, digit |-> 0, type |-> 0, n |-> 0, made |-> <<>>]

\* The operator calls in a handler's log, and how many are calls of op.
RECURSIVE OperatorCalls(_)
OperatorCalls(q) ==
    IF q = <<>> THEN <<>>
    ELSE IF Len(Head(q)) = 3 THEN <<Head(q)>> \o OperatorCalls(Tail(q))
    ELSE OperatorCalls(Tail(q))
OpCalls(q, op) == Cardinality({i \in 1..Len(q) : Len(q[i]) = 3 /\ q[i][1] = op})

\* Where the key just pressed leaves the typed sequence <operator><digit?><motion>;
\* n counts the invocations of the sequence's operator since the operator key,
\* made holds the operator calls of the last key of the sequence.
NextTyped(s, keysym, state) ==
    IF cur_state = OPERATOR_STATE /\ IsOperatorKey(keysym, state)
    THEN LET row == CHOOSE i \in 1..Len(operators) :
                        /\ keysym = operators[i].sym
                        /\ EQUALMODS(operators[i].mod, state)
                        /\ operators[i].mode = cur_mode
                        /\ \A j \in 1..(i - 1) :
                              ~ (/\ keysym = operators[j].sym
                                 /\ EQUALMODS(operators[j].mod, state)
                                 /\ operators[j].mode = cur_mode)
             op  == operators[row].func
         IN  [stage |-> "op", op |-> op, digit |-> 0, type |-> 0,
              n |-> OpCalls(s.calls, op), made |-> OperatorCalls(s.calls)]
    ELSE IF typed.stage = "op" /\ IsCountDigit(keysym, state)
    THEN [typed EXCEPT !.stage = "digit",
                       !.digit = CHOOSE d \in 1..9 : keysym = XK_0 + d,
                       !.n = @ + OpCalls(s.calls, typed.op),
                       !.made = OperatorCalls(s.calls)]
    ELSE IF typed.stage \in {"op", "digit"} /\ IsMotionKey(keysym, state)
    THEN [typed EXCEPT !.stage = "done",
                       !.type = motions[CHOOSE i \in 1..Len(motions) :
                                    /\ keysym = motions[i].sym
                                    /\ EQUALMODS(motions[i].mod, state)].type,
                       !.n = @ + OpCalls(s.calls, typed.op),
                       !.made = OperatorCalls(s.calls)]
    ELSE NothingTyped

\* The last n entries of q.
Keep(q, n) == IF Len(q) <= n THEN q ELSE SubSeq(q, Len(q) - n + 1, Len(q))

\* A handler ran to s.  A handler that faulted never returned: the process is
\* gone (or spins), and only the kind of fault and what the handler had invoked
\* are recorded.
\* The codes of the quit_howm calls among the calls q of a handler.
QuitCodes(q) ==
    LET quit == SelectSeq(q, LAMBDA e : Len(e) = 2 /\ e[1] = "quit_howm")
    IN  [i \in 1..Len(quit) |-> quit[i][2]]

Committed(s) ==
    /\ watch' = watch
    /\ quits' = quits \o QuitCodes(s.calls)
    /\ trace' = Keep(Append(trace, s.calls), watch)
    /\ IF s.fault # "none"
       THEN /\ fault' = s.fault
            /\ UNCHANGED <<prog, calls, cut_log>>
       ELSE /\ wss' = s.wss /\ next' = s.next /\ alive' = s.alive
            /\ gap' = s.gap /\ is_fullscreen' = s.is_fullscreen
            /\ is_urgent' = s.is_urgent
            /\ active_window' = s.active_window
            /\ current_desktop' = s.current_desktop
            /\ mapped' = s.mapped /\ scratchpad' = s.scratchpad
            /\ del_reg' = s.del_reg /\ cw' = s.cw /\ last_ws' = s.last_ws
            /\ prev_layout' = s.prev_layout
            /\ cur_mode' = s.cur_mode /\ cur_state' = s.cur_state
            /\ cur_cnt' = s.cur_cnt /\ operator_func' = s.operator_func
            /\ rep_state' = s.rep_state
            /\ running' = s.running /\ restart' = s.restart /\ retval' = s.retval
            /\ fault' = "none"
            /\ calls' = s.calls
            /\ cut_log' = NextCutLog(s)

\* A handler ran to s, outside of the event loop and of any call of a function on
\* its own.
Commit(s) == Committed(s) /\ UNCHANGED <<call, loop>>

\* ------------------------------------------------------------------ actions
Running == fault = "none" /\ steps < MaxSteps /\ steps' = steps + 1

\* A handler other than key_press_event ran to s.
Handled(s) == Commit(s) /\ UNCHANGED <<typed, last_x>>

\* What a map request finds of its window: override-redirect, a dock or toolbar,
\* or a window with the rule row its class matches.
MapRequests ==
    {[override_redirect |-> TRUE, dock |-> FALSE, rule |-> NoRule],
     [override_redirect |-> FALSE, dock |-> TRUE, rule |-> NoRule]}
        \cup [override_redirect : {FALSE}, dock : {FALSE}, rule : RuleRows]

\* The windows that ask to be mapped: a window the server has not seen, or one
\* that is a client of some workspace and was unmapped.
MapRequesters ==
    {xw \in Windows : xw \notin (mapped \cup alive) \/ find_client_by_win(State, xw).v # NIL}

map_event ==
    /\ Running
    /\ \E xw \in MapRequesters, me \in MapRequests :
          Handled(map_event_fn(
                      Log(State, <<"map_event", xw, me.override_redirect, me.dock>>),
                      xw, xw, me.override_redirect, me.dock, me.rule))

destroy_event ==
    /\ Running
    /\ \E xw \in KnownWindows :
          Handled(destroy_event_fn([State EXCEPT !.mapped = @ \ {xw}], xw))

unmap_event ==
    /\ Running
    /\ \E xw \in mapped :
          Handled(unmap_event_fn(
                      Log([State EXCEPT !.mapped = @ \ {xw}], <<"unmap_event", xw>>), xw))

\* The client messages sent, with data32[0] where it is read.
ClientMessages ==
    [type : {"_NET_CLOSE_WINDOW", "_NET_ACTIVE_WINDOW"}, data : {0}]
        \cup [type : {"_NET_CURRENT_DESKTOP"}, data : 0..WORKSPACES]

client_message_event ==
    /\ Running
    /\ \E xw \in KnownWindows, cm \in ClientMessages :
          Handled(client_message_event_fn(State, xw, cm.type, cm.data))

\* The keys that are pressed: every bound key, the count digits, an unbound key.
KeySyms ==
    {operators[i].sym : i \in 1..Len(operators)} \cup {motions[i].sym : i \in 1..Len(motions)}
        \cup {keys[i].sym : i \in 1..Len(keys)} \cup {XK_0 + d : d \in 1..MaxCount} \cup {XK_x}
ModStates == {{}, {MODKEY}, {MODKEY, "Lock"}}

\* key_press_event ran to s.
KeyHandled(s, keysym, state) ==
    /\ Commit(s)
    /\ IF s.fault # "none" THEN UNCHANGED <<typed, last_x>>
       ELSE /\ typed' = NextTyped(s, keysym, state)
            /\ last_x' = NextLastX(s)

key_press_event ==
    /\ Running
    /\ \E keysym \in KeySyms, state \in ModStates :
          KeyHandled(key_press_event_fn(State, keysym, state), keysym, state)

\* socket commands: ipc_process_cmd calls the row of the commands table that is
\* named, with the integer arguments sent. A count of 0 ends every operator's
\* loop before its first pass; the counts sent are 1..MaxCount.
CountArgs == 1..MaxCount
WsArgs    == 0..(WORKSPACES + 1)
Motions   == {CLIENT, WORKSPACE}

ipc_change_ws ==
    Running /\ \E i \in WsArgs : Handled(change_ws(Log(State, <<"change_ws", i>>), i))
ipc_current_to_ws ==
    Running /\ \E i \in WsArgs : Handled(current_to_ws(Log(State, <<"current_to_ws", i>>), i))
ipc_focus_last_ws ==
    Running /\ Handled(focus_last_ws(Log(State, <<"focus_last_ws", 0>>)))
ipc_focus_next_ws ==
    Running /\ Handled(focus_next_ws(Log(State, <<"focus_next_ws", 0>>)))
ipc_focus_prev_ws ==
    Running /\ Handled(focus_prev_ws(Log(State, <<"focus_prev_ws", 0>>)))
ipc_focus_next_client ==
    Running /\ Handled(focus_next_client(Log(State, <<"focus_next_client", 0>>)))
ipc_focus_prev_client ==
    Running /\ Handled(focus_prev_client(Log(State, <<"focus_prev_client", 0>>)))
ipc_paste ==
    Running /\ Handled(paste(Log(State, <<"paste", 0>>)))
ipc_send_to_scratchpad ==
    Running /\ Handled(send_to_scratchpad(Log(State, <<"send_to_scratchpad", 0>>)))
ipc_get_from_scratchpad ==
    Running /\ Handled(get_from_scratchpad(Log(State, <<"get_from_scratchpad", 0>>)))
ipc_replay ==
    Running /\ Handled(replay(Log(State, <<"replay", 0>>)))
ipc_op_kill ==
    /\ Running
    /\ \E type \in Motions, cnt \in CountArgs :
          Handled(op_kill(Log(State, <<"op_kill", type, cnt>>), type, cnt))
ipc_op_cut ==
    /\ Running
    /\ \E type \in Motions, cnt \in CountArgs :
          Handled(op_cut(Log(State, <<"op_cut", type, cnt>>), type, cnt))

EmptyWs ==
    [head |-> NIL, current |-> NIL, prev_foc |-> NIL, client_cnt |-> 0,
     layout |-> WS_LAYOUT, gap |-> WS_GAP,
     master_ratio |-> FloatPercent(MASTER_RATIO_PERCENT), bar_height |-> BAR_HEIGHT]

\* The state setup leaves: no client, the zero-initialised globals.
Boot ==
    [wss |-> [w \in WsIdx |-> EmptyWs], next |-> [c \in Clients |-> NIL],
     gap |-> [c \in Clients |-> 0], is_fullscreen |-> [c \in Clients |-> FALSE],
     is_urgent |-> [c \in Clients |-> FALSE],
     active_window |-> XCB_NONE, current_desktop |-> DEFAULT_WORKSPACE,
     alive |-> {}, mapped |-> {}, scratchpad |-> NIL, del_reg |-> <<>>,
     cw |-> DEFAULT_WORKSPACE, last_ws |-> 0, prev_layout |-> 0, cur_mode |-> NORMAL,
     cur_state |-> OPERATOR_STATE, cur_cnt |-> 1, operator_func |-> NULL,
     rep_state |-> [last_op |-> NULL, last_cmd |-> NULL, last_arg |-> 0,
                    last_type |-> 0, last_cnt |-> 0],
     running |-> TRUE, restart |-> FALSE, retval |-> 0,
     fault |-> "none", calls |-> <<>>]

\* No function is called on its own.
NoCall == <<>>

\* The program is in state s and has handled nothing yet; the history will keep
\* the last n handlers.  StartWatching: and no function is called on its own.
Idle(s, n) ==
    /\ wss = s.wss /\ next = s.next /\ alive = s.alive /\ mapped = s.mapped
    /\ gap = s.gap /\ is_fullscreen = s.is_fullscreen
    /\ is_urgent = s.is_urgent
    /\ active_window = s.active_window /\ current_desktop = s.current_desktop
    /\ scratchpad = s.scratchpad /\ del_reg = s.del_reg /\ cw = s.cw
    /\ last_ws = s.last_ws /\ prev_layout = s.prev_layout
    /\ cur_mode = s.cur_mode /\ cur_state = s.cur_state
    /\ cur_cnt = s.cur_cnt /\ operator_func = s.operator_func
    /\ rep_state = s.rep_state
    /\ running = s.running /\ restart = s.restart /\ retval = s.retval
    /\ main_pc = "select" /\ descs = {} /\ conns = <<>> /\ ret = IPC_ERR_NONE
    /\ xq = <<>> /\ exited = [how |-> "no", code |-> 0]
    /\ fault = s.fault
    /\ steps = 0
    /\ calls = <<>>
    /\ typed = NothingTyped
    /\ last_x = <<>>
    /\ cut_log = NoCuts
    /\ watch = n
    /\ quits = <<>>
    /\ trace = <<>>

StartWatching(s, n) == Idle(s, n) /\ input = NoCall /\ output = NoCall

StartAt(s) == StartWatching(s, 1)

Init == StartAt(Boot)

\* X events and socket commands
Next ==
    \/ map_event
    \/ destroy_event
    \/ unmap_event
    \/ client_message_event
    \/ ipc_change_ws
    \/ ipc_current_to_ws
    \/ ipc_focus_last_ws
    \/ ipc_focus_next_ws
    \/ ipc_focus_prev_ws
    \/ ipc_focus_next_client
    \/ ipc_focus_prev_client
    \/ ipc_paste
    \/ ipc_send_to_scratchpad
    \/ ipc_get_from_scratchpad
    \/ ipc_op_kill
    \/ ipc_op_cut

Spec == Init /\ [][Next]_vars

\* A _NET_WM_STATE client message for a managed window that names
\* _NET_WM_STATE_DEMANDS_ATTENTION: ewmh_process_wm_state calls set_urgent
_NET_WM_STATE_REMOVE == 0
_NET_WM_STATE_ADD    == 1
_NET_WM_STATE_TOGGLE == 2

ewmh_process_wm_state(s, c, action) ==
    IF action = _NET_WM_STATE_REMOVE THEN set_urgent(s, c, FALSE)
    ELSE IF action = _NET_WM_STATE_ADD THEN set_urgent(s, c, TRUE)
    ELSE IF action = _NET_WM_STATE_TOGGLE THEN set_urgent(s, c, ~ s.is_urgent[c])
    ELSE s

demands_attention ==
    /\ Running
    /\ \E xw \in KnownWindows,
          action \in {_NET_WM_STATE_REMOVE, _NET_WM_STATE_ADD, _NET_WM_STATE_TOGGLE} :
          LET c == find_client_by_win(State, xw)
          IN  Handled(IF c.f # "none" THEN Fail(State, c.f)
                      ELSE IF c.v = NIL THEN State
                      ELSE ewmh_process_wm_state(
                               Log(State, <<"set_urgent", xw, action>>), c.v, action))

ipc_focus_urgent ==
    Running /\ Handled(focus_urgent(Log(State, <<"focus_urgent", 0>>)))

\* Windows that ask for attention, on either workspace, and the command that
\* focuses them
NextUrgent ==
    \/ map_event
    \/ ipc_change_ws
    \/ demands_attention
    \/ ipc_focus_urgent

SpecUrgent == Init /\ [][NextUrgent]_vars

\* A _NET_CURRENT_DESKTOP client message for a window, carrying the index d
DesktopData == 0..(WORKSPACES + 1)

current_desktop_message ==
    /\ Running
    /\ \E xw \in KnownWindows, d \in DesktopData :
          Handled(client_message_event_fn(
                      Log(State, <<"client_message_event", xw, d>>),
                      xw, "_NET_CURRENT_DESKTOP", d))

\* Pagers: windows are mapped, the workspace is changed over the socket and by
\* _NET_CURRENT_DESKTOP messages
NextDesktop ==
    \/ map_event
    \/ ipc_change_ws
    \/ current_desktop_message

SpecDesktop == Init /\ [][NextDesktop]_vars

\* Key presses, with the windows' map requests and destructions and the
\* replay command of the socket
NextKeys ==
    \/ key_press_event
    \/ map_event
    \/ destroy_event
    \/ ipc_replay

SpecKeys == Init /\ [][NextKeys]_vars

\* The state after windows 1..n have asked to be mapped, the last one matching
\* the rule row `rule`.
RECURSIVE Populated(_, _)
Populated(n, rule) ==
    IF n = 0 THEN Boot
    ELSE map_event_fn(Populated(n - 1, NoRule), n, n, FALSE, FALSE,
                      IF n = MaxClients THEN rule ELSE NoRule)

\* Every window has been mapped: all on the default workspace, or the last one
\* sent to the next workspace by a rule that does not follow.
InitCut ==
    \E rule \in {NoRule, [ws |-> correct_ws(DEFAULT_WORKSPACE + 1), follow |-> FALSE]} :
       StartAt(Populated(MaxClients, rule))

\* Cutting and pasting on a populated workspace, with changes of focus
NextCut ==
    \/ ipc_op_cut
    \/ ipc_paste
    \/ ipc_focus_next_client
    \/ ipc_focus_prev_client

SpecCut == InitCut /\ [][NextCut]_vars

\* Switching between workspaces, and moving the current client, with every window
\* mapped; the history keeps every handler
InitWs ==
    \E rule \in {NoRule, [ws |-> correct_ws(DEFAULT_WORKSPACE + 1), follow |-> FALSE]} :
       StartWatching(Populated(MaxClients, rule), MaxSteps)

NextWs ==
    \/ ipc_change_ws
    \/ ipc_focus_last_ws
    \/ ipc_focus_next_ws
    \/ ipc_focus_prev_ws
    \/ ipc_current_to_ws

SpecWs == InitWs /\ [][NextWs]_vars

\* The delete register on its own: stack_push with any client pointer or NULL,
\* stack_pop with the value it returns; the history keeps every call
stack_push_call ==
    /\ Running
    /\ \E c \in Clients \cup {NIL} :
          Handled(stack_push(Log(State, <<"stack_push", c>>), c))

Returned(r) == Log(r.s, <<"stack_pop", r.v>>)

stack_pop_call ==
    Running /\ Handled(Returned(stack_pop(State)))

InitStack == StartWatching(Populated(MaxClients, NoRule), MaxSteps)

NextStack ==
    \/ stack_push_call
    \/ stack_pop_call

SpecStack == InitStack /\ [][NextStack]_vars

\* The layout handlers on their own: every call of a handler on a workspace of up
\* to MaxList clients, any of them FFT.
MaxList == 8

Screens      == {[width |-> 1920, height |-> 1080], [width |-> 1600, height |-> 900]}
BarHeights   == {0, 20}
MasterRatios == {FloatPercent(i) : i \in {50, 53, 70}}

LayoutCalls ==
    UNION {[layout : {ZOOM, GRID, HSTACK, VSTACK},
            fft : [1..n -> BOOLEAN],
            screen_width : {sc.width}, screen_height : {sc.height},
            bar_height : BarHeights, BAR_BOTTOM : BOOLEAN,
            master_ratio : MasterRatios] : n \in 1..MaxList, sc \in Screens}

\* layout_handler[wss[cw].head->next ? wss[cw].layout : ZOOM]: the handler that is
\* selected for the call g.
Selected(g) ==
    IF Len(g.fft) <= 1 THEN ZOOM ELSE g.layout

\* A function called on its own returned out.
Computed(out) ==
    /\ fault = "none"
    /\ output = NoCall
    /\ output' = out
    /\ UNCHANGED <<prog, fault, steps, hist, input, loop>>

zoom_call  == Selected(input) = ZOOM /\ Computed(zoom(input))
grid_call  == Selected(input) = GRID /\ Computed(grid(input))
stack_call == Selected(input) \in {HSTACK, VSTACK} /\ Computed(stack(input))

InitLayout == \E g \in LayoutCalls : Idle(Boot, 1) /\ input = g /\ output = NoCall

NextLayout ==
    \/ zoom_call
    \/ grid_call
    \/ stack_call

SpecLayout == InitLayout /\ [][NextLayout]_vars

\* The master ratio: resize_master with the percentages a command can carry, in
\* every layout and on every workspace, from the ratios a configuration sets.
ResizeArgs == {-99, -50, -49, -5, -1, 0, 1, 5, 39, 40, 99}
LayoutArgs == (0 - 1)..END_LAYOUT
InitRatios == {FloatPercent(i) : i \in {11, MASTER_RATIO_PERCENT, 95}}

ipc_resize_master ==
    Running /\ \E i \in ResizeArgs : Handled(resize_master(Log(State, <<"resize_master", i>>), i))
ipc_change_layout ==
    Running /\ \E i \in LayoutArgs : Handled(change_layout(Log(State, <<"change_layout", i>>), i))

InitRatio ==
    \E r \in [WsIdx -> InitRatios] :
       StartAt([Boot EXCEPT !.wss = [w \in WsIdx |-> [EmptyWs EXCEPT !.master_ratio = r[w]]]])

NextRatio ==
    \/ ipc_resize_master
    \/ ipc_change_layout
    \/ ipc_change_ws

SpecRatio == InitRatio /\ [][NextRatio]_vars

\* Gaps: growing and shrinking them by motion and count, on workspaces that windows
\* are mapped on and whose current client may be fullscreen.
ipc_op_grow_gaps ==
    /\ Running
    /\ \E type \in Motions, cnt \in CountArgs :
          Handled(op_grow_gaps(Log(State, <<"op_grow_gaps", type, cnt>>), type, cnt))
ipc_op_shrink_gaps ==
    /\ Running
    /\ \E type \in Motions, cnt \in CountArgs :
          Handled(op_shrink_gaps(Log(State, <<"op_shrink_gaps", type, cnt>>), type, cnt))
ipc_toggle_fullscreen ==
    Running /\ Handled(toggle_fullscreen(Log(State, <<"toggle_fullscreen", 0>>)))

NextGaps ==
    \/ map_event
    \/ ipc_op_grow_gaps
    \/ ipc_op_shrink_gaps
    \/ ipc_toggle_fullscreen

SpecGaps == Init /\ [][NextGaps]_vars

\* ipc_arg_to_int on its own: every string of up to MaxArgLen characters.
MaxArgLen == 3

ArgStrings == UNION {[1..n -> Chars] : n \in 0..MaxArgLen}

ipc_arg_to_int_call ==
    input \in ArgStrings /\ Computed(ipc_arg_to_int(input, IPC_ERR_NONE))

InitArg == \E arg \in ArgStrings : Idle(Boot, 1) /\ input = arg /\ output = NoCall

NextArg == ipc_arg_to_int_call

SpecArg == InitArg /\ [][NextArg]_vars

\* The event loop of main: select, then the socket when it is ready (accept, read,
\* ipc_process_cmd, write, close), then the X events polled.
MsgNames == {"change_mode", "change_ws", "quit_howm", "op_kill", "no_such_command"}
MsgArgs  == {<<"1">>, <<"-", "1">>, <<"a">>}
MsgTypes == {<<"w">>, <<"a">>}

\* What read leaves in data when it returns n > 0.
Messages ==
    {<<name>> : name \in MsgNames}
        \cup {<<name, NUL>> : name \in MsgNames}
        \cup {<<name, NUL>> \o arg \o <<NUL>> : name \in MsgNames, arg \in MsgArgs}
        \cup {<<name, NUL>> \o arg \o <<NUL>> \o type \o <<NUL>> :
                 name \in MsgNames, arg \in MsgArgs, type \in MsgTypes}

\* The loop is at its end: `while (running)` is tested.
LoopEnd(s) == IF s.running THEN "select" ELSE "exit"

\* A step of main ran the handlers to s.
Stepped(s) == Committed(s) /\ UNCHANGED <<typed, last_x, call>>

\* The X events that can arrive while the loop waits: up to MaxPending map requests
\* and destroy notifications, each of another window, in the order of the windows.
MaxPending == 2

\* The next window to ask for its mapping is the one with the lowest handle.
NextRequester == {xw \in MapRequesters : \A y \in MapRequesters : xw <= y}

XEvents ==
    [response_type : {"XCB_MAP_REQUEST"}, window : NextRequester]
        \cup [response_type : {"XCB_DESTROY_NOTIFY"}, window : KnownWindows]
        \cup [response_type : {"XCB_CONFIGURE_REQUEST"}, window : mapped]

Arrivals ==
    {<<>>} \cup {<<e>> : e \in XEvents}
           \cup {q \in XEvents \X XEvents : q[1].window < q[2].window}

\* select returned: the socket has a connection waiting, or X events wait, or both
select_call ==
    /\ fault = "none" /\ running /\ main_pc = "select"
    /\ \E sock \in BOOLEAN, q \in {a \in Arrivals : Len(xq) + Len(a) <= MaxPending} :
          /\ sock \/ xq \o q # <<>>
          /\ xq' = xq \o q
          /\ descs' = (IF sock THEN {"sock_fd"} ELSE {})
                         \cup (IF xq \o q # <<>> THEN {"dpy_fd"} ELSE {})
          /\ main_pc' = IF sock THEN "sock_fd" ELSE "dpy_fd"
    /\ UNCHANGED <<prog, fault, steps, hist, call, conns, ret, exited>>

\* After the socket: the X events if there are any, or the end of the loop.
AfterSocket(s) == IF "dpy_fd" \in descs THEN "dpy_fd" ELSE LoopEnd(s)

\* accept returned -1: continue
accept_failed ==
    /\ Running /\ main_pc = "sock_fd"
    /\ main_pc' = LoopEnd(State)
    /\ Stepped(State)
    /\ UNCHANGED <<descs, conns, ret, xq, exited>>

\* accept returned a connection and read returned n <= 0
read_nothing ==
    /\ Running /\ main_pc = "sock_fd"
    /\ conns' = Append(conns, [open |-> TRUE, replies |-> 0])
    /\ main_pc' = AfterSocket(State)
    /\ Stepped(State)
    /\ UNCHANGED <<descs, ret, xq, exited>>

\* accept returned a connection and read returned n > 0
read_command ==
    /\ Running /\ main_pc = "sock_fd"
    /\ \E msg \in Messages :
          LET Processed(r) ==
                  /\ ret' = r.err
                  /\ main_pc' = AfterSocket(r.s)
                  /\ Stepped(r.s)
          IN  Processed(ipc_process_cmd(State, msg))
    /\ conns' = Append(conns, [open |-> FALSE, replies |-> 1])
    /\ UNCHANGED <<descs, xq, exited>>

\* The handler table: the function installed for an event kind, "NULL" where
\* the initialiser names none.
handler(kind) ==
    CASE kind = "XCB_BUTTON_PRESS" -> "button_press_event"
      [] kind = "XCB_KEY_PRESS" -> "key_press_event"
      [] kind = "XCB_MAP_REQUEST" -> "map_event"
      [] kind = "XCB_DESTROY_NOTIFY" -> "destroy_event"
      [] kind = "XCB_ENTER_NOTIFY" -> "enter_event"
      [] kind = "XCB_CONFIGURE_NOTIFY" -> "configure_event"
      [] kind = "XCB_UNMAP_NOTIFY" -> "unmap_event"
      [] kind = "XCB_CLIENT_MESSAGE" -> "client_message_event"
      [] OTHER -> "NULL"

\* configure_event: the window is configured as asked, then the workspace is
\* arranged again.
configure_event(s, xw) ==
    arrange_windows(Log(s, <<"configure_event", xw>>))

\* if (ev && handler[ev->response_type & ~0x80]) handler[...](ev)
Dispatch(s, ev) ==
    LET h == handler(ev.response_type)
    IN  IF h = "map_event"
        THEN map_event_fn(Log(s, <<"map_event", ev.window, FALSE, FALSE>>),
                          ev.window, ev.window, FALSE, FALSE, NoRule)
        ELSE IF h = "destroy_event"
        THEN destroy_event_fn([s EXCEPT !.mapped = @ \ {ev.window}], ev.window)
        ELSE IF h = "configure_event"
        THEN configure_event(s, ev.window)
        ELSE s

\* xcb_poll_for_event returned an event: its handler runs
poll_for_event ==
    /\ Running /\ main_pc = "dpy_fd"
    /\ xq # <<>>
    /\ xq' = Tail(xq)
    /\ Stepped(Dispatch(State, Head(xq)))
    /\ UNCHANGED <<main_pc, descs, conns, ret, exited>>

\* xcb_poll_for_event returned NULL
poll_done ==
    /\ fault = "none" /\ main_pc = "dpy_fd"
    /\ xq = <<>>
    /\ main_pc' = LoopEnd(State)
    /\ UNCHANGED <<prog, fault, steps, hist, call, descs, conns, ret, xq, exited>>

\* The exit status a parent process sees of `return code` from main.
ExitStatus(code) == code % 256

\* The loop is left: cleanup, and main returns or executes howm again.
main_return ==
    /\ fault = "none" /\ main_pc = "exit"
    /\ main_pc' = "done"
    /\ exited' = IF ~ running /\ ~ restart THEN [how |-> "return", code |-> ExitStatus(retval)]
                 ELSE IF ~ running /\ restart THEN [how |-> "execv", code |-> 0]
                 ELSE [how |-> "return", code |-> ExitStatus(1)]
    /\ UNCHANGED <<prog, fault, steps, hist, call, descs, conns, ret, xq>>

NextMain ==
    \/ select_call
    \/ accept_failed
    \/ read_nothing
    \/ read_command
    \/ poll_for_event
    \/ poll_done
    \/ main_return

SpecMain == Init /\ [][NextMain]_vars

\* ------------------------------------------------------------------ claims
\* The clients reachable from a list head, in order.
Reach(h) == Walk(State, h).seq
ReachSet(h) == SeqSet(Reach(h))

\* C1: every workspace's client_cnt is the number of clients reachable from its head.
C1_CountIsLength ==
    \A w \in WsIdx : wss[w].client_cnt = Len(Reach(wss[w].head))

\* C2: current and prev_foc of every workspace are nil or a client of that workspace's own list.
C2_FocusInOwnList ==
    \A w \in WsIdx :
        /\ wss[w].current \in {NIL} \cup ReachSet(wss[w].head)
        /\ wss[w].prev_foc \in {NIL} \cup ReachSet(wss[w].head)

\* The owners of clients: the workspace lists, the scratchpad, the register's sublists.
Owners ==
    [kind : {"ws"}, at : WsIdx] \cup [kind : {"scratchpad"}, at : {0}]
        \cup [kind : {"del_reg"}, at : 1..Len(del_reg)]
Owned(o) ==
    CASE o.kind = "ws"         -> ReachSet(wss[o.at].head)
      [] o.kind = "scratchpad" -> ReachSet(scratchpad)
      [] o.kind = "del_reg"    -> ReachSet(del_reg[o.at])

\* C3: no client is reachable from more than one owner.
C3_SingleOwner ==
    \A o1, o2 \in Owners : o1 # o2 => Owned(o1) \cap Owned(o2) = {}

C5_CutPasteRestores ==
    (cut_log.phase = "paste" /\ cut_log.n = cut_log.k /\ cut_log.reg0 = 0)
        => Held(State) = cut_log.base

\* C6: from OPERATOR, an operator key, optionally a count digit, then a motion key
\* invoke the operator exactly once, at the motion key; before the motion key
\* the operator has not been invoked.
C6_OperatorOnceAtMotion ==
    /\ typed.stage \in {"op", "digit"} => typed.n = 0
    /\ typed.stage = "done" => typed.n = 1 /\ OpCalls(typed.made, typed.op) = 1

C6_Witness ==
    /\ typed.stage = "done" /\ typed.digit = 0 /\ typed.n = 1
    /\ typed.made = << <<"op_cut", CLIENT, 1>> >>
    /\ Len(del_reg) = 1

\* C7: the operator is passed the typed digit, or 1 when none was typed; after it
\* the automaton is in OPERATOR with pending count 1; the pending count is 1 in
\* OPERATOR and COUNT and always within 1..9.
C7_CountPassed ==
    /\ cur_cnt \in 1..9
    /\ cur_state \in {OPERATOR_STATE, COUNT_STATE} => cur_cnt = 1
    /\ typed.stage = "done" =>
          /\ cur_state = OPERATOR_STATE
          /\ typed.made # <<>>
          /\ \A i \in 1..Len(typed.made) :
                typed.made[i][3] = IF typed.digit # 0 THEN typed.digit ELSE 1

C7_Witness ==
    /\ typed.stage = "done" /\ typed.digit = MaxCount
    /\ typed.made = << <<typed.op, typed.type, MaxCount>> >>
    /\ cur_state = OPERATOR_STATE /\ cur_cnt = 1

\* C8: at any time, also before the first command, exactly one half of the replay
\* record is live: last_cmd or last_op is set, never both and never neither.
C8_ExactlyOneLive ==
    (rep_state.last_cmd # NULL) # (rep_state.last_op # NULL)

\* C9: the record holds the last command-producing key action X, whatever was
\* handled since; replay invokes exactly X's function with X's argument, or
\* X's operator with X's motion type and count, and leaves the record as it was.
C9_ReplayReproduces ==
    /\ last_x # <<>> => Recorded(rep_state) = last_x
    /\ \A i \in 1..Len(calls) :
          calls[i][1] = "replay" => i < Len(calls) /\ calls[i + 1] = last_x

C9_Witness ==
    /\ Len(calls) = 2 /\ calls[1][1] = "replay" /\ calls[2] = last_x
    /\ Len(last_x) = 3 /\ last_x[3] = MaxCount

\* C10: change_ws(i) with i = cw or i outside 1..WORKSPACES changes neither cw,
\* last_ws, any workspace's list, count or focus pointers, nor which windows
\* are mapped.
C10_ChangeWsNoop ==
    [][ (/\ fault' = "none"
         /\ \E i \in WsArgs : /\ Effective(calls') = << <<"change_ws", i>> >>
                              /\ (i = cw \/ i \notin WsIdx))
        => UNCHANGED <<wss, next, mapped, cw, last_ws>> ]_vars

C10_Witness ==
    /\ mapped # {} /\ last_ws \in WsIdx
    /\ \E i \in WsArgs : calls = << <<"change_ws", i>> >> /\ (i = cw \/ i \notin WsIdx)

\* The last n handlers were exactly the calls q[1], ..., q[n], and all returned.
Ran(q) ==
    /\ fault = "none"
    /\ Len(trace) >= Len(q)
    /\ \A i \in 1..Len(q) : trace[Len(trace) - Len(q) + i] = <<q[i]>>

\* C11 as stated: for any valid a and b, switch(a); switch(b); switch(a) ends
\* with cw = a and last_ws = b, and a following focus_last_ws ends with cw = b
\* and last_ws = a.
C11_SwitchBackAnyPair ==
    \A a, b \in WsIdx :
        /\ Ran(<< <<"change_ws", a>>, <<"change_ws", b>>, <<"change_ws", a>> >>)
              => cw = a /\ last_ws = b
        /\ Ran(<< <<"change_ws", a>>, <<"change_ws", b>>, <<"change_ws", a>>,
                  <<"focus_last_ws", 0>> >>)
              => cw = b /\ last_ws = a

\* C11, amended: for valid a and b with a # b, switch(a); switch(b); switch(a)
\* ends with cw = a and last_ws = b, and a following focus_last_ws ends with
\* cw = b and last_ws = a.
C11_SwitchBack ==
    \A a, b \in WsIdx :
        a # b =>
            /\ Ran(<< <<"change_ws", a>>, <<"change_ws", b>>, <<"change_ws", a>> >>)
                  => cw = a /\ last_ws = b
            /\ Ran(<< <<"change_ws", a>>, <<"change_ws", b>>, <<"change_ws", a>>,
                      <<"focus_last_ws", 0>> >>)
                  => cw = b /\ last_ws = a

C11_Witness ==
    \E a, b \in WsIdx :
        /\ a # b /\ a # DEFAULT_WORKSPACE
        /\ Ran(<< <<"change_ws", a>>, <<"change_ws", b>>, <<"change_ws", a>>,
                  <<"focus_last_ws", 0>> >>)
        /\ cw = b /\ last_ws = a

\* The last handler, whether it returned or not, invoked exactly the call e.
Did(e) == trace # <<>> /\ trace[Len(trace)] = <<e>>

\* The clients of workspace w's list, in order, in state s.
List(s, w) == Walk(s, s.wss[w].head).seq

\* q without c, the others in their order.
Without(q, c) == SelectSeq(q, LAMBDA x : x # c)

\* The client before c in the list q taken as a ring; nil when c is alone in q
\* or not in q.
RingPrev(q, c) ==
    LET at == CHOOSE i \in 1..Len(q) : q[i] = c
    IN  IF Len(q) <= 1 \/ c \notin SeqSet(q) THEN NIL
        ELSE IF at = 1 THEN q[Len(q)] ELSE q[at - 1]

\* C12: current_to_ws(j) for a valid j # cw with a current client c removes c
\* from cw's list and keeps the order of the others, makes c the last client
\* and the current of j, lowers cw's client_cnt and raises j's by one; without
\* follow, cw stays and its current becomes the predecessor of c.
C12_MoveToWs ==
    [][ \A j \in WsIdx :
          (Did(<<"current_to_ws", j>>)' /\ j # cw /\ wss[cw].current # NIL)
          => /\ fault' = "none"
             /\ List(State', cw) = Without(List(State, cw), wss[cw].current)
             /\ List(State', j) = Append(List(State, j), wss[cw].current)
             /\ wss'[j].current = wss[cw].current
             /\ wss'[cw].client_cnt = wss[cw].client_cnt - 1
             /\ wss'[j].client_cnt = wss[j].client_cnt + 1
             /\ ~ FOLLOW_MOVE =>
                   /\ cw' = cw
                   /\ wss'[cw].current = RingPrev(List(State, cw), wss[cw].current) ]_vars

\* C13: an invalid workspace index is ignored: current_to_ws(j) and change_ws(j)
\* (as a _NET_CURRENT_DESKTOP message calls it) with j outside 1..WORKSPACES
\* return and leave every list, count, focus pointer and cw unchanged, and a
\* map request whose rule names such a j is handled as if no rule had matched.
C13_InvalidIgnored ==
    [][ \A j \in WsArgs \ WsIdx :
          /\ (Did(<<"current_to_ws", j>>)' \/ Did(<<"change_ws", j>>)')
                => fault' = "none" /\ UNCHANGED <<wss, next, cw>>
          /\ Did(<<"client_to_ws", j>>)'
                => /\ fault' = "none"
                   /\ \E xw \in Windows \ alive :
                         State' = map_event_fn(State, xw, xw, FALSE, FALSE, NoRule) ]_vars

\* C14: op_kill with CLIENT motion and count n, on a current workspace that
\* holds m clients, removes exactly min(n, m) clients of that workspace and
\* leaves client_cnt = m - min(n, m); with n >= m the workspace ends with head
\* nil, current nil and client_cnt 0; with m = 0 nothing changes.
C14_KillClients ==
    [][ \A n \in CountArgs :
          Did(<<"op_kill", CLIENT, n>>)'
          => LET m == Len(List(State, cw))
                 k == IF n <= m THEN n ELSE m
             IN  /\ fault' = "none"
                 /\ Len(List(State', cw)) = m - k
                 /\ SeqSet(List(State', cw)) \subseteq SeqSet(List(State, cw))
                 /\ \A w \in WsIdx \ {cw} : List(State', w) = List(State, w)
                 /\ wss'[cw].client_cnt = m - k
                 /\ n >= m => /\ wss'[cw].head = NIL
                              /\ wss'[cw].current = NIL
                              /\ wss'[cw].client_cnt = 0
                 /\ m = 0 => UNCHANGED <<wss, next, alive, mapped, cw>> ]_vars

\* The register has room for a cut that pushes n sublists.
Room(n) == Len(del_reg) < DELETE_REGISTER_SIZE /\ n + Len(del_reg) <= DELETE_REGISTER_SIZE

\* C15: op_cut with CLIENT motion and a count n >= the client count of the
\* non-empty current workspace cuts that workspace alone: the whole list of cw
\* is pushed as one sublist, cw ends with head, current and prev_foc nil and
\* client_cnt 0, and every other workspace keeps its list, count and focus.
C15_CutWholeWorkspace ==
    [][ \A n \in CountArgs :
          (/\ Did(<<"op_cut", CLIENT, n>>)'
           /\ n >= wss[cw].client_cnt /\ wss[cw].head # NIL /\ Room(n))
          => /\ fault' = "none"
             /\ del_reg' = Append(del_reg, wss[cw].head)
             /\ List([State' EXCEPT !.wss[cw].head = del_reg'[Len(del_reg')]], cw)
                   = List(State, cw)
             /\ wss'[cw] = EmptyWs
             /\ \A w \in WsIdx \ {cw} : wss'[w] = wss[w] /\ List(State', w) = List(State, w) ]_vars

\* The n clients c, next(c), ... of the list q taken as a ring.
RingFrom(q, c, n) ==
    LET at == CHOOSE i \in 1..Len(q) : q[i] = c
    IN  [k \in 1..n |-> q[((at + k - 2) % Len(q)) + 1]]

\* p and q hold the same clients in the same cyclic order.
SameRing(p, q) ==
    /\ Len(p) = Len(q)
    /\ p = <<>> \/ \E i \in 1..Len(q) : p = RingFrom(q, q[i], Len(q))

\* C16: op_cut with CLIENT motion and count n, 1 <= n < m, on a workspace of m
\* clients pushes one nil-terminated sublist holding exactly current,
\* next(current), ... (n clients, in cyclic list order); the other m - n
\* clients stay in cw's list in their cyclic order; client_cnt becomes m - n;
\* current becomes the predecessor of the first cut client.
C16_CutClients ==
    [][ \A n \in CountArgs :
          (/\ Did(<<"op_cut", CLIENT, n>>)'
           /\ 1 <= n /\ n < Len(List(State, cw)) /\ n < wss[cw].client_cnt
           /\ wss[cw].current \in SeqSet(List(State, cw))
           /\ Len(del_reg) < DELETE_REGISTER_SIZE)
          => LET q   == List(State, cw)
                 c   == wss[cw].current
                 cut == RingFrom(q, c, n)
             IN  /\ fault' = "none"
                 /\ del_reg' = Append(del_reg, c)
                 /\ Walk(State', c) = [seq |-> cut, end |-> "nil"]
                 /\ Walk(State', wss'[cw].head).end = "nil"
                 /\ SameRing(List(State', cw), SelectSeq(q, LAMBDA x : x \notin SeqSet(cut)))
                 /\ wss'[cw].client_cnt = Len(q) - n
                 /\ wss'[cw].current = RingPrev(q, c) ]_vars

\* The list q with the list p spliced in immediately after its client c.
SplicedAfter(q, c, p) ==
    LET at == CHOOSE i \in 1..Len(q) : q[i] = c
    IN  SubSeq(q, 1, at) \o p \o SubSeq(q, at + 1, Len(q))

\* C17: paste with a non-empty register pops the top sublist and splices it, in
\* order, immediately after the current client of cw (as the whole list when
\* cw is empty); the clients already on cw keep their relative order,
\* client_cnt grows by the sublist's length and current becomes the last
\* client pasted.  With an empty register paste changes nothing.
C17_PasteSplices ==
    [][ Did(<<"paste", 0>>)'
        => IF del_reg = <<>>
           THEN fault' = "none" /\ UNCHANGED <<wss, next, alive, mapped, del_reg, cw>>
           ELSE LET q   == List(State, cw)
                    c   == wss[cw].current
                    sub == Walk(State, del_reg[Len(del_reg)]).seq
                IN  /\ fault' = "none"
                    /\ del_reg' = SubSeq(del_reg, 1, Len(del_reg) - 1)
                    /\ q = <<>> => List(State', cw) = sub
                    /\ c \in SeqSet(q) => List(State', cw) = SplicedAfter(q, c, sub)
                    /\ SelectSeq(List(State', cw), LAMBDA x : x \in SeqSet(q)) = q
                    /\ wss'[cw].client_cnt = wss[cw].client_cnt + Len(sub)
                    /\ wss'[cw].current = sub[Len(sub)]
                    /\ SeqSet(sub) \subseteq mapped' ]_vars

\* C18: a cut that would overflow the register is refused and changes nothing:
\* when the register already holds DELETE_REGISTER_SIZE sublists, or the cut
\* is of workspace type with a count k such that size + k exceeds
\* DELETE_REGISTER_SIZE, op_cut returns with every list, count, focus pointer,
\* window mapping and the register as before.
C18_OverflowRefused ==
    [][ \A type \in Motions, k \in CountArgs :
          (/\ Did(<<"op_cut", type, k>>)'
           /\ \/ Len(del_reg) >= DELETE_REGISTER_SIZE
              \/ type = WORKSPACE /\ Len(del_reg) + k > DELETE_REGISTER_SIZE)
          => /\ fault' = "none"
             /\ UNCHANGED <<wss, next, alive, mapped, del_reg, scratchpad, cw, last_ws>> ]_vars

\* A cut of the current client was refused because the register was full.
C18_Witness ==
    /\ fault = "none"
    /\ Did(<<"op_cut", CLIENT, 1>>)
    /\ cut_log = NoCuts
    /\ Len(del_reg) = DELETE_REGISTER_SIZE
    /\ wss[cw].current \in SeqSet(List(State, cw))

\* A bounded LIFO run over the calls of tr: the heads pushed and not yet popped,
\* oldest first.
RECURSIVE Lifo(_)
Lifo(tr) ==
    LET Step(r, e) ==
            IF e[1] = "stack_push"
            THEN IF e[2] = NIL \/ Len(r) >= DELETE_REGISTER_SIZE THEN r ELSE Append(r, e[2])
            ELSE IF e[1] = "stack_pop" /\ r # <<>> THEN SubSeq(r, 1, Len(r) - 1)
            ELSE r
    IN  IF tr = <<>> THEN <<>>
        ELSE Step(Lifo(SubSeq(tr, 1, Len(tr) - 1)), tr[Len(tr)][1])

\* C19: the delete register is a bounded LIFO: its size stays within
\* 0..DELETE_REGISTER_SIZE, a push on a full register leaves it unchanged, and
\* every pop returns the most recently pushed head not yet popped, or nil from
\* an empty register, which it leaves unchanged.
C19_BoundedLifo ==
    /\ Len(del_reg) \in 0..DELETE_REGISTER_SIZE
    /\ del_reg = Lifo(trace)
    /\ \A i \in 1..Len(trace) :
          trace[i][1][1] = "stack_pop" =>
              LET r == Lifo(SubSeq(trace, 1, i - 1))
              IN  trace[i][1][2] = IF r = <<>> THEN NIL ELSE r[Len(r)]

\* A push found the register full, and a later pop returned a head.
C19_Witness ==
    /\ fault = "none"
    /\ trace # <<>>
    /\ trace[Len(trace)][1][1] = "stack_pop" /\ trace[Len(trace)][1][2] # NIL
    /\ \E i \in 1..Len(trace) :
          /\ trace[i][1][1] = "stack_push" /\ trace[i][1][2] # NIL
          /\ Len(Lifo(SubSeq(trace, 1, i - 1))) = DELETE_REGISTER_SIZE

\* C20: an unmap-notify for the window of a managed client (the event window
\* not being the root) removes the client from its workspace's list: that
\* workspace's client_cnt decreases by one and find_client_by_win no longer
\* finds the window, exactly as after a destroy-notify.
C20_UnmapRemoves ==
    [][ \A xw \in Windows :
          (/\ Did(<<"unmap_event", xw>>)'
           /\ find_client_by_win(State, xw).f = "none"
           /\ find_client_by_win(State, xw).v # NIL)
          => /\ fault' = "none"
             /\ find_client_by_win(State', xw) = Ret(NIL)
             /\ \A w \in WsIdx :
                   find_client_by_win(State, xw).v \in SeqSet(List(State, w))
                   => wss'[w].client_cnt = wss[w].client_cnt - 1
             /\ State' = destroy_event_fn([State EXCEPT !.mapped = @ \ {xw}], xw) ]_vars

\* C21: a map request for a DOCK or TOOLBAR window leaves the model unchanged: no
\* workspace list holds a client for the window afterwards, and no client_cnt and
\* no focus pointer has changed.
C21_DockUnmanaged ==
    [][ \A xw \in Windows :
          (/\ Did(<<"map_event", xw, FALSE, TRUE>>)'
           /\ find_client_by_win(State, xw) = Ret(NIL))
          => /\ fault' = "none"
             /\ \A w \in WsIdx :
                   /\ xw \notin {Win(c) : c \in SeqSet(List(State', w))}
                   /\ wss'[w].client_cnt = wss[w].client_cnt
                   /\ wss'[w].current = wss[w].current
                   /\ wss'[w].prev_foc = wss[w].prev_foc ]_vars

\* C22: a map request for a window that is not override-redirect, not managed, not
\* a dock and matches no rule appends exactly one new client at the tail of the
\* current workspace's list, adds one to its client_cnt, changes no other
\* workspace and makes the new client current; a map request for an
\* override-redirect or managed window changes nothing.
C22_MapAppends ==
    [][ \A xw \in Windows :
          /\ (/\ Did(<<"map_event", xw, FALSE, FALSE>>)'
              /\ find_client_by_win(State, xw) = Ret(NIL))
             => /\ fault' = "none"
                /\ cw' = cw
                /\ List(State', cw) = Append(List(State, cw), xw)
                /\ wss'[cw].client_cnt = wss[cw].client_cnt + 1
                /\ wss'[cw].current = xw
                /\ \A w \in WsIdx \ {cw} :
                      wss'[w] = wss[w] /\ List(State', w) = List(State, w)
          /\ (/\ \E dock \in BOOLEAN :
                    \/ Did(<<"map_event", xw, TRUE, dock>>)'
                    \/ /\ Did(<<"map_event", xw, FALSE, dock>>)'
                       /\ find_client_by_win(State, xw).v # NIL)
             => UNCHANGED prog ]_vars

\* A layout handler has arranged a workspace of at least two clients that are not
\* FFT in the given layout.
Arranged(layout) ==
    /\ output # NoCall
    /\ Selected(input) = layout
    /\ get_non_tff_count(input) >= 2

\* The rectangles of vstack with a bar on top, for a master of width m.
VstackWith(m) ==
    LET n  == get_non_tff_count(input)
        b  == input.bar_height
        dh == input.screen_height - b
    IN  \A i \in NonTff(input) :
           output[i] = IF i = get_first_non_tff(input)
                       THEN [x |-> 0, y |-> b, w |-> m, h |-> dh]
                       ELSE [x |-> m,
                             y |-> b + (Rank(input, i) - 1) * (dh \div (n - 1)),
                             w |-> input.screen_width - m,
                             h |-> dh \div (n - 1)]

\* C23 (as stated): in vstack with n >= 2 tilable clients, a bar of height b on top
\* and master ratio r, the first tilable client gets (0, b, floor(W*r), H-b) and the
\* i-th remaining one (floor(W*r), b + i*floor((H-b)/(n-1)), W - floor(W*r),
\* floor((H-b)/(n-1))), floor(W*r) being the floor of the product W*r.
C23_VstackFloor ==
    (Arranged(VSTACK) /\ ~ input.BAR_BOTTOM)
        => VstackWith(FloorProduct(input.screen_width, input.master_ratio))

\* C23 (amended): the same rectangles, with floor(W*r) computed in single
\* precision: the product W*r is rounded to the nearest float before it is
\* truncated.
C23_Vstack ==
    (Arranged(VSTACK) /\ ~ input.BAR_BOTTOM)
        => VstackWith(FloatMulTrunc(input.screen_width, input.master_ratio))

\* C23 witness: vstack has arranged three tilable clients under a bar on top, for
\* a ratio whose rounded product differs from the exact one.
C23_Witness ==
    /\ Arranged(VSTACK)
    /\ ~ input.BAR_BOTTOM
    /\ input.bar_height > 0
    /\ get_non_tff_count(input) = 3
    /\ \E i \in 1..Len(input.fft) : input.fft[i]
    /\ FloatMulTrunc(input.screen_width, input.master_ratio)
          # FloorProduct(input.screen_width, input.master_ratio)
    /\ output[get_first_non_tff(input)].w
          = FloatMulTrunc(input.screen_width, input.master_ratio)

\* The drawable area: the screen minus the bar.
Drawable ==
    [x |-> 0, y |-> IF input.BAR_BOTTOM THEN 0 ELSE input.bar_height,
     w |-> input.screen_width, h |-> input.screen_height - input.bar_height]

\* Rectangles a and b share a pixel; a lies inside b.
Overlap(a, b) ==
    /\ a.w > 0 /\ a.h > 0 /\ b.w > 0 /\ b.h > 0
    /\ a.x < b.x + b.w /\ b.x < a.x + a.w
    /\ a.y < b.y + b.h /\ b.y < a.y + a.h
Inside(a, b) ==
    /\ b.x <= a.x /\ a.x + a.w <= b.x + b.w
    /\ b.y <= a.y /\ a.y + a.h <= b.y + b.h

\* C24: in hstack with n >= 2 tilable clients the master spans the full width at
\* the top of the drawable area, the other clients are side by side directly
\* below it, no stacked client overlaps the master and every rectangle lies
\* inside the drawable area, with the bar on top and with the bar on the bottom.
C24_Hstack ==
    Arranged(HSTACK) =>
        LET master  == output[get_first_non_tff(input)]
            stacked == NonTff(input) \ {get_first_non_tff(input)}
        IN  /\ master.x = Drawable.x /\ master.w = Drawable.w
            /\ master.y = Drawable.y
            /\ \A i \in NonTff(input) : Inside(output[i], Drawable)
            /\ \A i \in stacked :
                  /\ output[i].y = master.y + master.h
                  /\ ~ Overlap(output[i], master)
            /\ \A i, j \in stacked : i # j => ~ Overlap(output[i], output[j])

\* The sum of f over the finite set S.
RECURSIVE Sum(_, _)
Sum(f, S) ==
    IF S = {} THEN 0
    ELSE LET x == CHOOSE y \in S : TRUE IN f[x] + Sum(f, S \ {x})

\* C25: in grid with n >= 2 tilable clients the clients are placed column-major in
\* cols columns, cols the smallest integer with cols*cols >= n; each column holds
\* floor(n/cols) or floor(n/cols)+1 clients, the larger columns last; the
\* rectangles do not overlap, lie inside the drawable area and cover it except
\* for integer-division remainders of at most cols + rows pixels.
C25_Grid ==
    Arranged(GRID) =>
        LET n     == get_non_tff_count(input)
            cols  == CHOOSE k \in 1..n : k * k >= n /\ (k - 1) * (k - 1) < n
            col_w == input.screen_width \div cols
            Col(k) == {i \in NonTff(input) : output[i].x = k * col_w}
            size  == [k \in 0..(cols - 1) |-> Cardinality(Col(k))]
            tall  == [i \in NonTff(input) |-> output[i].h]
            rows  == size[cols - 1]
        IN  /\ \A i \in NonTff(input) :
                  /\ output[i].w = col_w
                  /\ \E k \in 0..(cols - 1) : i \in Col(k)
                  /\ Inside(output[i], Drawable)
            /\ \A k \in 0..(cols - 1) : size[k] \in {n \div cols, (n \div cols) + 1}
            /\ \A k \in 1..(cols - 1) : size[k - 1] <= size[k]
            /\ \A i, j \in NonTff(input) :
                  i < j => /\ output[i].x <= output[j].x
                           /\ output[i].x = output[j].x => output[i].y < output[j].y
                           /\ ~ Overlap(output[i], output[j])
            /\ \A k \in 0..(cols - 1) :
                  (Drawable.w - cols * col_w) + (Drawable.h - Sum(tall, Col(k)))
                      <= cols + rows

\* C25 witness: grid has arranged seven tilable clients and an FFT one in three
\* columns of 2, 2 and 3 clients.
C25_Witness ==
    /\ Arranged(GRID)
    /\ get_non_tff_count(input) = 7
    /\ \E i \in 1..Len(input.fft) : input.fft[i]
    /\ \A k \in 0..2 :
          Cardinality({i \in NonTff(input) : output[i].x = k * (input.screen_width \div 3)})
              = IF k = 2 THEN 3 ELSE 2

\* What resize_master would make of ratio r with the percentage i.
Resized(r, i) == FloatAdd(r, FloatPercent(i))

\* r lies strictly between 0.1 and 1.0 (r is r * 2^30, and 2^30 / 10 is no integer).
InRange(r) == r > FloatOne \div 10 /\ r < FloatOne

\* The master ratio of every workspace is strictly between 0.1 and 1.0.
RatioInRange ==
    \A w \in WsIdx : InRange(wss[w].master_ratio)

\* A step of resize_master whose result would be <= 0.1 or >= 1.0, or that is
\* made while the layout is not hstack or vstack, leaves every ratio unchanged.
RefusedUnchanged ==
    \A i \in ResizeArgs :
       (/\ Did(<<"resize_master", i>>)'
        /\ \/ ~ InRange(Resized(wss[cw].master_ratio, i))
           \/ wss[cw].layout \notin {HSTACK, VSTACK})
       => /\ fault' = "none"
          /\ \A w \in WsIdx : wss'[w].master_ratio = wss[w].master_ratio

\* C26: after any sequence of resize_master invocations the master ratio of every
\* workspace is strictly between 0.1 and 1.0, and an invocation whose result
\* would be <= 0.1 or >= 1.0, or that is made while the layout is not hstack or
\* vstack, leaves the ratio unchanged.
C26_MasterRatio ==
    [] RatioInRange /\ [][RefusedUnchanged]_vars

\* C26 witness: resize_master has just been refused at the lower end in a stack
\* layout, on a workspace whose ratio an earlier invocation had changed.
C26_Witness ==
    /\ fault = "none"
    /\ wss[cw].layout \in {HSTACK, VSTACK}
    /\ wss[cw].master_ratio \notin InitRatios
    /\ \E i \in ResizeArgs :
          /\ Did(<<"resize_master", i>>)
          /\ Resized(wss[cw].master_ratio, i) <= FloatOne \div 10
          /\ Resized(wss[cw].master_ratio, i) > 0


\* max(0, g + k * delta): a 16-bit gap g after k saturating changes by delta
Saturated(g, delta, k) == IF g + k * delta <= 0 THEN 0 ELSE g + k * delta

\* The gaps after a change by delta with count cnt: every client's gap and every
\* workspace's baseline is what it was, changed by delta and saturated at zero as
\* often as the motion reached it.
GapsSaturate(delta, cnt) ==
    /\ \A w \in WsIdx :
          \E k \in 0..cnt : wss'[w].gap = Saturated(wss[w].gap, delta, k)
    /\ \A c \in alive :
          \E k \in 0..cnt : gap'[c] = Saturated(gap[c], delta, k)

\* C27: after op_grow_gaps or op_shrink_gaps with either motion, every client's gap
\* and every workspace's gap baseline is max(0, previous + delta); a gap smaller than
\* OP_GAP_SIZE shrinks to 0 and never wraps around.
C27_GapsSaturate ==
    [][ \A type \in Motions, cnt \in CountArgs :
           /\ Did(<<"op_grow_gaps", type, cnt>>)' /\ fault' = "none"
                 => GapsSaturate(OP_GAP_SIZE, cnt)
           /\ Did(<<"op_shrink_gaps", type, cnt>>)' /\ fault' = "none"
                 => GapsSaturate(0 - OP_GAP_SIZE, cnt) ]_vars


IsDigit(ch) == Ord("0") <= Ord(ch) /\ Ord(ch) <= Ord("9")

\* arg without its leading minus, if it has one
Digits(arg) == IF arg # <<>> /\ arg[1] = "-" THEN Tail(arg) ELSE arg

\* arg is a decimal of one or two digits with an optional leading minus
IsDecimal(arg) ==
    Len(Digits(arg)) \in {1, 2} /\ \A i \in 1..Len(Digits(arg)) : IsDigit(Digits(arg)[i])

\* the decimal value of a string of digits
RECURSIVE ValueOf(_)
ValueOf(q) ==
    IF q = <<>> THEN 0 ELSE 10 * ValueOf(SubSeq(q, 1, Len(q) - 1)) + (Ord(q[Len(q)]) - Ord("0"))

DecimalValue(arg) ==
    IF arg[1] = "-" THEN 0 - ValueOf(Digits(arg)) ELSE ValueOf(Digits(arg))

\* C28: ipc_arg_to_int returns the decimal value, with no error, of every argument
\* that is a one- or two-digit decimal with an optional leading minus ("0" included),
\* and sets an error status for every other string.
C28_ArgToInt ==
    output # NoCall =>
        IF IsDecimal(input)
        THEN output = [v |-> DecimalValue(input), err |-> IPC_ERR_NONE]
        ELSE output.err # IPC_ERR_NONE


\* The command name of msg is the name of no row of commands[].
UnknownName(msg) ==
    /\ SplitArgs(msg, <<>>, <<>>) # <<>>
    /\ \A i \in 1..Len(commands) : SplitArgs(msg, <<>>, <<>>)[1] # <<commands[i].name>>

\* ipc_process_cmd returned r from the state s: it only reported.
OnlyReported(s, r) ==
    /\ r.err # IPC_ERR_NONE /\ r.s.fault = "none" => r.s = s
    /\ r.s.fault = "none" => r.err \in {IPC_ERR_NONE, IPC_ERR_SYNTAX, IPC_ERR_NO_CMD,
                                        IPC_ERR_TOO_FEW_ARGS, IPC_ERR_ARG_NOT_INT,
                                        IPC_ERR_ARG_TOO_LARGE}

\* C29: whenever ipc_process_cmd returns a status other than none, no command or
\* operator function has been invoked and the model (workspaces, cw, mode, layout,
\* running and restart flags, exit code) is unchanged; an unknown command name
\* returns no-cmd.
C29_MalformedOnlyReported ==
    main_pc = "sock_fd" =>
        \A msg \in Messages :
            /\ OnlyReported(State, ipc_process_cmd(State, msg))
            /\ UnknownName(msg) => ipc_process_cmd(State, msg).err = IPC_ERR_NO_CMD

\* C30: when the event loop waits, every connection accepted on the socket has got
\* exactly one status reply and is closed, whatever read returned.
C30_RepliedAndClosed ==
    main_pc = "select" =>
        \A i \in 1..Len(conns) : conns[i].replies = 1 /\ ~ conns[i].open


\* An X event is dispatched only after the socket of the wake has been served: the
\* loop never goes from the X events back to the socket without waiting.
SocketFirst ==
    /\ xq' # xq /\ main_pc # "select" => main_pc = "dpy_fd"
    /\ main_pc = "dpy_fd" => main_pc' # "sock_fd"
    /\ main_pc = "sock_fd" /\ main_pc' = "dpy_fd" /\ Len(conns') > Len(conns) /\ fault' = "none"
          => conns'[Len(conns')].open \/ conns'[Len(conns')].replies = 1

\* The event dispatched is the oldest one that waits.
InOrderPolled ==
    xq' # xq /\ main_pc # "select" => xq # <<>> /\ xq' = Tail(xq)

\* No X event waits when the loop waits.
Drained == main_pc = "select" => xq = <<>>

\* C31: in a wake where both descriptors are ready the socket command is executed
\* and replied before any X event is dispatched, X events are dispatched in the
\* order polled, and all pending X events are drained before the loop waits again.
C31_SocketThenAllEvents ==
    [] Drained /\ [][SocketFirst /\ InOrderPolled]_vars


\* After quit_howm the loop does not wait again.
NeverWaitsAgain == quits # <<>> /\ fault = "none" => main_pc \in {"dpy_fd", "exit", "done"}

FocusedWindow ==
    IF wss[cw].current = NIL THEN XCB_NONE ELSE Win(wss[cw].current)

\* C33: after every operation that changes or clears the focus of the current
\* workspace, the value last published as _NET_ACTIVE_WINDOW is the window of
\* wss[cw].current, or none when wss[cw].current is nil.
C33_ActiveWindowPublished ==
    fault = "none" => active_window = FocusedWindow

\* ------------------------------------------------------------------ C34
\* C34: the manager never crashes on socket input or client messages: no
\* command of the table, with any accepted argument and from any reachable
\* state (an empty current workspace included), and no destroy notification or
\* client message, dereferences a nil client pointer.
C34_NeverCrashes ==
    fault # "segv"

\* ------------------------------------------------------------------ C35
\* The X event kinds the core consumes
ConsumedKinds ==
    {"XCB_KEY_PRESS", "XCB_BUTTON_PRESS", "XCB_ENTER_NOTIFY", "XCB_MAP_REQUEST",
     "XCB_DESTROY_NOTIFY", "XCB_UNMAP_NOTIFY", "XCB_CONFIGURE_REQUEST",
     "XCB_CLIENT_MESSAGE"}

\* The event loop takes a configure request from the X connection
ConfigureRequestPolled ==
    /\ main_pc = "dpy_fd" /\ xq # <<>> /\ xq' = Tail(xq)
    /\ Head(xq).response_type = "XCB_CONFIGURE_REQUEST"

\* C35: every X event kind the core consumes has a handler in the dispatch
\* table, and a configure request taken by the event loop is dispatched to the
\* configure handler.
C35_ConfigureRequestHandled ==
    /\ [](\A k \in ConsumedKinds : handler(k) # "NULL")
    /\ [][ConfigureRequestPolled =>
              calls' # <<>> /\ calls'[1] = <<"configure_event", Head(xq).window>>]_vars

\* ------------------------------------------------------------------ C36
\* The urgent clients in the list of workspace w
UrgentOn(s, w) ==
    {c \in SeqSet(Walk(s, s.wss[w].head).seq) : s.is_urgent[c]}

\* The state the step ends in
StateAfter ==
    [wss |-> wss', next |-> next', alive |-> alive', is_urgent |-> is_urgent', cw |-> cw']

\* C36: focus_urgent focuses a client that has the urgent hint: if a client of
\* some workspace is urgent, afterwards the current client of the current
\* workspace is an urgent client of its list; if no client is urgent, nothing
\* changes.
C36_FocusUrgent ==
    [][Did(<<"focus_urgent", 0>>)' /\ fault' = "none" =>
          IF \E w \in WsIdx : UrgentOn(State, w) # {}
          THEN wss'[cw'].current \in UrgentOn(StateAfter, cw')
          ELSE UNCHANGED prog]_vars

\* ------------------------------------------------------------------ C37
\* C37: cur_mode is one of NORMAL, FOCUS, FLOATING in every reachable state:
\* change_mode with any accepted integer argument, negative values included,
\* sets a valid mode or leaves the mode unchanged.
C37_ModeValid ==
    cur_mode \in {NORMAL, FOCUS, FLOATING}

\* ------------------------------------------------------------------ C38
\* The workspaces op_kill(WORKSPACE, cnt) is aimed at
KillTargets(cnt) == {correct_ws(cw + k) : k \in 0..(cnt - 1)}

\* C38: op_kill with the WORKSPACE motion terminates from every reachable
\* state, and afterwards each of the count targeted workspaces has head = nil
\* and client_cnt = 0.
C38_KillWsEmpties ==
    [][\A cnt \in 1..MaxCount :
          Did(<<"op_kill", WORKSPACE, cnt>>)' =>
              /\ fault' # "hang"
              /\ fault' = "none" =>
                    \A w \in KillTargets(cnt) :
                        wss'[w].head = NIL /\ wss'[w].client_cnt = 0]_vars

\* ------------------------------------------------------------------ C39
\* The list of the current workspace as an owner of clients
CurrentList == [kind |-> "ws", at |-> cw]

\* C39: a client's window is mapped if and only if the client is in the
\* current workspace's list: after every operation all clients listed on cw
\* are mapped, and every client on another workspace, in the scratchpad or in
\* the delete register is unmapped.
C39_MappedIffCurrent ==
    fault = "none" =>
        /\ \A c \in Owned(CurrentList) : Win(c) \in mapped
        /\ \A o \in Owners \ {CurrentList} : \A c \in Owned(o) : Win(c) \notin mapped

\* ------------------------------------------------------------------ C40
\* The index change_ws publishes as _NET_CURRENT_DESKTOP when it has switched to w
PublishedIndex(w) == w - 1

\* The last handler was a _NET_CURRENT_DESKTOP message for window xw carrying d
DesktopAsked(xw, d) ==
    trace # <<>> /\ trace[Len(trace)] # <<>>
        /\ trace[Len(trace)][1] = <<"client_message_event", xw, d>>

\* The workspace a message for the managed window xw carrying d switches to
DesktopOf(xw, d) ==
    client_message_event_fn(State, xw, "_NET_CURRENT_DESKTOP", d).cw

Managed == {xw \in Windows : find_client_by_win(State, xw).v # NIL}

\* A switch publishes the index of the workspace switched to
SwitchPublishes ==
    cw' # cw /\ fault' = "none" => current_desktop' = PublishedIndex(cw')

\* A message carrying the index published for w requests w
IndexRequests ==
    \A xw \in Managed, w \in WsIdx :
        DesktopAsked(xw, PublishedIndex(w))' /\ fault' = "none" => cw' = w

\* C40: the desktop numbering published and accepted over EWMH is the same:
\* a _NET_CURRENT_DESKTOP message carrying the index published for workspace
\* w requests workspace w, and every workspace 1..N can be selected by some
\* message.
C40_SameNumbering ==
    /\ [][SwitchPublishes /\ IndexRequests]_vars
    /\ [](fault = "none" =>
             \A xw \in Managed, w \in WsIdx \ {cw} :
                 \E d \in DesktopData : DesktopOf(xw, d) = w)

====
